---------------------------- MODULE Spec2Model ----------------------------
(***************************************************************************)
(* Verification model of the ParseVideos Telegram bot: the per-user gates   *)
(* (RateLimiter, TaskManager), the generic request driver                   *)
(* (generic_command_handler), the file-id cache (file_cache.py), the usage  *)
(* recorder and the media-group delivery of galleries.                      *)
(*                                                                          *)
(* Text values are modelled as sequences of tokens, so that prefixing and   *)
(* prefix stripping ("VIDEO" + fid, startswith) are real operations.        *)
(***************************************************************************)
EXTENDS Integers, Sequences, FiniteSets, TLC

(***************************************************************************)
(* Bounds of the model                                                      *)
(***************************************************************************)
NumUids == 2
NumReqs == 2
NumVids == 1
NumKeys == 2
NumCallers == 2
MaxCloses == 2
MaxTime == 9
PipeMaxTime == 6
MaxCalls == 4
MaxItems == 21
MaxPipeItems == 2
MaxOps == 3

\* largest file of the download harness, in MiB
MaxSize == 4

\* largest Downloader.threads of the download harness
MaxThreads == 3

\* number of records the recorder harness writes
MaxRecs == 4

\* number of messages the routing harness receives
NumMsgs == 2

\* longest list of quality options, and the resolutions and bit rates in it
MaxOptions == 3
MaxResolution == 2
MaxBitRate == 2

\* number of URLs in the web that a redirect chase walks, and the largest
\* max_redirects
NumUrls == 3
MaxRedirects == 3

\* largest retries and timeout_sec of a retry wrapper
MaxRetries == 4
MaxTimeoutSec == 2

(***************************************************************************)
(* Program constants                                                        *)
(***************************************************************************)
MinInterval == 3
GroupSize == 10
SizeLimitMB == 50

Uids == 1..NumUids
Reqs == 1..NumReqs
Vids == 1..NumVids
NoVid == 0
None == "None"

\* time.time() is far beyond min_interval at start-up, so the default
\* last-sent value 0.0 never blocks a first call.
StartTime == MinInterval

(***************************************************************************)
(* Text helpers                                                             *)
(***************************************************************************)
StartsWith(s, p) == Len(s) >= Len(p) /\ SubSeq(s, 1, Len(p)) = p

StripPrefix(s, p) == SubSeq(s, Len(p) + 1, Len(s))

VARIABLES
    now,        \* time.time()
    last_sent,  \* RateLimiter._last_sent (0 = no entry, the .get default)
    calls,      \* log of the allow() calls made by the limiter harness
    locks,      \* TaskManager._locks: uid -> locked()
    cache,      \* file_cache._cache: vid -> entry
    disk,       \* the files next to file_cache.py: name -> content
    cpc,        \* position of the running put/delete inside save()
    cur,        \* the running put/delete
    preOp,      \* _cache and CACHE_FILE as they were when it started
    lastPut,    \* per key, the value of the last put that returned
    expect,     \* _cache of the last returned operation before a kill
    restarted,  \* the process was killed and load() has rebuilt _cache
    ops,        \* number of cache operations performed so far
    stats,      \* user_stats.json: uid -> list of records
    req,        \* per request: position and locals of generic_command_handler
    frame,      \* the locals of the handler that ended in the last step, as it ended
    switch,     \* config.IMAGES_CACHE_SWITCH
    gal,        \* state of the gallery delivery harness
    dl,         \* one Downloader.download call: position, workers, files
    rlog,       \* the files of recorder_parse.py and the running write
    disp,       \* bot.py routing: blacklist, both limiter/manager pairs, messages
    gc,         \* the last /getcache command: what it found, sent and left behind
    kb,         \* the last quality keyboard built by _send_quality_selection
    chase,      \* one _get_final_url call: position, visited URLs, outcome
    rt,         \* one call of a retry_on_timeout_async wrapper: attempts, outcome
    dy,         \* handlers/douyin.py: the module's record, its handlers, the log
    pw          \* PlaywrightManager: class attributes and the running callers

limVars == <<now, last_sent, calls>>
cacheVars == <<cache, disk, cpc, cur, preOp, lastPut, expect, restarted, ops>>
pipeVars == <<locks, stats, req, frame, switch>>
galVars == <<gal>>
dlVars == <<dl>>
recVars == <<rlog>>
auxVars == <<dl, rlog>>
toolVars == <<disp, gc, kb, chase, rt, dy, pw>>
vars == <<now, last_sent, calls, locks, cache, disk, cpc, cur, preOp, lastPut,
          expect, restarted, ops, stats, req, frame, switch, gal, dl, rlog, disp,
          gc, kb, chase, rt, dy, pw>>

(***************************************************************************)
(* RateLimiter (rate_limiter.py)                                            *)
(***************************************************************************)
AdmitsEarly(last, t) == ~(t - last < MinInterval - 1)

\* allow(): "if now - last < self._min_interval: return False"
Admits(last, t) == ~(t - last < MinInterval)

\* an allow() that stamps the uid on the rejecting path as well
AfterAllowAlways(ls, u, t) == [ls EXCEPT ![u] = t]

\* allow(): self._last_sent[user_id] = now, only on the admitting path
AfterAllow(ls, u, t) == IF Admits(ls[u], t) THEN [ls EXCEPT ![u] = t] ELSE ls

LimInit ==
    /\ now = StartTime
    /\ last_sent = [u \in Uids |-> 0]
    /\ calls = <<>>

LimIdle == UNCHANGED limVars

\* one allow(uid) call of the harness, logged with its time and result
Allow(u) ==
    /\ Len(calls) < MaxCalls
    /\ calls' = Append(calls, [uid |-> u, t |-> now, ok |-> Admits(last_sent[u], now)])
    /\ last_sent' = AfterAllow(last_sent, u, now)
    /\ UNCHANGED now

\* the wall clock advances
Tick ==
    /\ now < MaxTime
    /\ now' = now + 1
    /\ UNCHANGED <<last_sent, calls>>

(***************************************************************************)
(* TaskManager (task_manager.py)                                            *)
(***************************************************************************)
AcquireAlways(lk, u) == TRUE

\* acquire(): False when lock.locked(), else the lock is taken
AcquireOk(lk, u) == ~lk[u]

\* an acquire() that frees a lock it finds held
AfterAcquireFreesHeld(lk, u) ==
    IF AcquireOk(lk, u) THEN [lk EXCEPT ![u] = TRUE] ELSE [lk EXCEPT ![u] = FALSE]

\* acquire(): the lock table afterwards; a held lock is left alone
AfterAcquire(lk, u) == IF AcquireOk(lk, u) THEN [lk EXCEPT ![u] = TRUE] ELSE lk

\* release(): "if lock and lock.locked(): lock.release()"
AfterRelease(lk, u) == [lk EXCEPT ![u] = FALSE]

\* active_count()
ActiveCount(lk) == Cardinality({u \in Uids : lk[u]})

(***************************************************************************)
(* file_cache.py: values, entries and the JSON document on disk             *)
(***************************************************************************)
NoText == <<"None">>

NoValue == [kind |-> "none", s |-> <<>>, items |-> <<>>]

StrVal(t) == [kind |-> "str", s |-> t, items |-> <<>>]

ListVal(l) == [kind |-> "list", s |-> <<>>, items |-> l]

\* the empty dict that _normalize_entry({}) wraps for a new key
DictVal == [kind |-> "dict", s |-> <<>>, items |-> <<>>]

\* a key that is not in _cache
Absent == [present |-> FALSE, title |-> <<>>, value |-> NoValue,
           reply |-> NoText, parse_mode |-> "None"]

EmptyCache == [k \in Vids |-> Absent]

\* a key that is not in the JSON object
RawAbsent == [present |-> FALSE, fmt |-> "dict", title |-> <<>>, value |-> NoValue,
              reply |-> NoText, parse_mode |-> "None", special |-> "None"]

NoFile == [exists |-> FALSE, complete |-> FALSE, data |-> [k \in Vids |-> RawAbsent]]

FileNames == {"main", "tmp"}

NormalizeAsBare(raw) ==
    [present |-> TRUE, title |-> <<>>, value |-> DictVal,
     reply |-> NoText, parse_mode |-> "None"]

\* _normalize_entry: a dict with "value" keeps title/value/reply/parse_mode
\* (and nothing else); anything else is a legacy bare value
NormalizeEntry(raw) ==
    IF raw.fmt = "dict"
    THEN [present |-> TRUE, title |-> raw.title, value |-> raw.value,
          reply |-> raw.reply, parse_mode |-> raw.parse_mode]
    ELSE [present |-> TRUE, title |-> <<>>, value |-> raw.value,
          reply |-> NoText, parse_mode |-> "None"]

\* load(): only an existing file is read; a file that does not parse, or
\* whose root is no object, gives the empty cache
Load(doc, mem) ==
    IF ~doc.exists THEN mem
    ELSE IF ~doc.complete THEN EmptyCache
    ELSE [k \in Vids |-> IF doc.data[k].present THEN NormalizeEntry(doc.data[k])
                         ELSE Absent]

\* json.dumps(_cache, ensure_ascii=False, indent=2)
Dump(mem) ==
    [k \in DOMAIN mem |-> IF mem[k].present
                    THEN [present |-> TRUE, fmt |-> "dict", title |-> mem[k].title,
                          value |-> mem[k].value, reply |-> mem[k].reply,
                          parse_mode |-> mem[k].parse_mode, special |-> "None"]
                    ELSE RawAbsent]

\* get()
Get(mem, k) == IF mem[k].present THEN mem[k].value ELSE NoValue

\* get_full()
GetFull(mem, k) == mem[k]

\* a put() that stores the reply and parse_mode arguments as given
PutOverwritesAll(mem, k, file_id, title, reply, parse_mode) ==
    LET entry == IF mem[k].present THEN mem[k] ELSE NormalizeEntry(
                     [present |-> TRUE, fmt |-> "bare", title |-> <<>>,
                      value |-> DictVal, reply |-> NoText, parse_mode |-> "None",
                      special |-> "None"])
        upd == [entry EXCEPT !.value = file_id, !.reply = reply,
                             !.parse_mode = parse_mode]
    IN  [mem EXCEPT ![k] = IF title # NoText THEN [upd EXCEPT !.title = title] ELSE upd]

\* put(), the in-memory part: setdefault + update + title
Put(mem, k, file_id, title, reply, parse_mode) ==
    LET entry == IF mem[k].present THEN mem[k] ELSE NormalizeEntry(
                     [present |-> TRUE, fmt |-> "bare", title |-> <<>>,
                      value |-> DictVal, reply |-> NoText, parse_mode |-> "None",
                      special |-> "None"])
        upd == [entry EXCEPT
                   !.value = file_id,
                   !.reply = IF reply # NoText THEN reply ELSE @,
                   !.parse_mode = IF parse_mode # "None" THEN parse_mode ELSE @]
    IN  [mem EXCEPT ![k] = IF title # NoText THEN [upd EXCEPT !.title = title] ELSE upd]

\* delete(), the in-memory part
Pop(mem, k) == [mem EXCEPT ![k] = Absent]

TmpNameMain == "main"

\* _atomic_write: the NamedTemporaryFile created in the cache directory
TmpName == "tmp"

\* _atomic_write: tf.write(data) has started, nothing flushed yet
WriteBegun(fs, mem) ==
    [fs EXCEPT ![TmpName] = [exists |-> TRUE, complete |-> FALSE, data |-> Dump(mem)]]

\* _atomic_write: tf.flush(); os.fsync(); the with-block closes the file
WriteSynced(fs) == [fs EXCEPT ![TmpName] = [@ EXCEPT !.complete = TRUE]]

\* _atomic_write: os.replace(tmp_path, CACHE_FILE)
Replaced(fs) ==
    IF TmpName = "main" THEN fs
    ELSE [fs EXCEPT !["main"] = fs[TmpName], ![TmpName] = NoFile]

\* save() run to its end without a fault
Saved(fs, mem) == Replaced(WriteSynced(WriteBegun(fs, mem)))

(***************************************************************************)
(* Cache harness: put / delete in steps of save(), and process kills        *)
(***************************************************************************)
PutValues ==
    { StrVal(<<"fidA">>), StrVal(<<"fidB">>),
      ListVal(<< <<"VIDEO", "f1">>, <<"IMAGE", "f2">> >>) }

\* a cache file of the legacy shape (bare values) or of the current shape
InitDocs ==
    { NoFile,
      [exists |-> TRUE, complete |-> TRUE,
       data |-> [k \in Vids |-> [present |-> TRUE, fmt |-> "bare", title |-> <<>>,
                                 value |-> StrVal(<<"fidOld">>), reply |-> NoText,
                                 parse_mode |-> "None", special |-> "None"]]],
      [exists |-> TRUE, complete |-> TRUE,
       data |-> [k \in Vids |-> IF k = 1
                                THEN [present |-> TRUE, fmt |-> "dict", title |-> <<"T">>,
                                      value |-> StrVal(<<"fidOld">>), reply |-> NoText,
                                      parse_mode |-> "HTML", special |-> "None"]
                                ELSE RawAbsent]] }

NoOp == [op |-> "none", k |-> 1, v |-> NoValue]

CacheInit ==
    /\ \E d \in InitDocs : disk = [f \in FileNames |-> IF f = "main" THEN d ELSE NoFile]
    /\ cache = Load(disk["main"], EmptyCache)
    /\ cpc = "idle"
    /\ cur = NoOp
    /\ preOp = [mem |-> cache, main |-> disk["main"]]
    /\ lastPut = [k \in Vids |-> NoValue]
    /\ expect = [mid |-> FALSE, mem |-> cache]
    /\ restarted = FALSE
    /\ ops = 0

\* put(key, file_id, title=..., parse_mode=...) up to the start of the write
CachePut(k, v, title, pm) ==
    /\ cpc = "idle" /\ ops < MaxOps
    /\ cache' = Put(cache, k, v, title, NoText, pm)
    /\ disk' = WriteBegun(disk, cache')
    /\ cpc' = "writing"
    /\ cur' = [op |-> "put", k |-> k, v |-> v]
    /\ preOp' = [mem |-> cache, main |-> disk["main"]]
    /\ lastPut' = [lastPut EXCEPT ![k] = NoValue]
    /\ restarted' = FALSE
    /\ ops' = ops + 1
    /\ UNCHANGED expect

\* delete(key): an absent key returns False without saving
CacheDelete(k) ==
    /\ cpc = "idle" /\ ops < MaxOps
    /\ ops' = ops + 1
    /\ restarted' = FALSE
    /\ preOp' = [mem |-> cache, main |-> disk["main"]]
    /\ IF cache[k].present
       THEN /\ cache' = Pop(cache, k)
            /\ disk' = WriteBegun(disk, cache')
            /\ cpc' = "writing"
            /\ cur' = [op |-> "delete", k |-> k, v |-> NoValue]
            /\ lastPut' = [lastPut EXCEPT ![k] = NoValue]
       ELSE UNCHANGED <<cache, disk, cpc, cur, lastPut>>
    /\ UNCHANGED expect

\* the temp file is flushed, synced and closed
SaveSync ==
    /\ cpc = "writing"
    /\ disk' = WriteSynced(disk)
    /\ cpc' = "synced"
    /\ UNCHANGED <<cache, cur, preOp, lastPut, expect, restarted, ops>>

\* os.replace, after which save() and the put/delete return
SaveReplace ==
    /\ cpc = "synced"
    /\ disk' = Replaced(disk)
    /\ cpc' = "idle"
    /\ lastPut' = IF cur.op = "put" THEN [lastPut EXCEPT ![cur.k] = cur.v] ELSE lastPut
    /\ UNCHANGED <<cache, cur, preOp, expect, restarted, ops>>

\* the process is killed at any point and started again: the module-level
\* load() rebuilds _cache from CACHE_FILE
KillRestart ==
    /\ ~restarted
    /\ cache' = Load(disk["main"], EmptyCache)
    /\ cpc' = "idle"
    /\ expect' = IF cpc = "idle" THEN [mid |-> FALSE, mem |-> cache]
                 ELSE [mid |-> TRUE, mem |-> preOp.mem]
    /\ restarted' = TRUE
    /\ UNCHANGED <<disk, cur, preOp, lastPut, ops>>

\* the main cache file is damaged from outside while no save is running:
\* what is left does not parse (the case of the except branch of load())
CorruptMain ==
    /\ cpc = "idle" /\ ~restarted
    /\ disk["main"].exists /\ disk["main"].complete
    /\ disk' = [disk EXCEPT !["main"] = [@ EXCEPT !.complete = FALSE]]
    /\ UNCHANGED <<cache, cpc, cur, preOp, lastPut, expect, restarted, ops>>

\* the truth value Python gives a cached value (`if fid := cache_get(key)`)
Truthy(v) == (v.kind = "str" /\ v.s # <<>>) \/ (v.kind = "list" /\ v.items # <<>>)

\* music.py _send_with_cache for key k: a cached handle is sent (byFid: "ok",
\* "stale" = BadRequest file not found / FILE_REFERENCE, "error" = any other
\* exception); a stale handle is answered by cache_put(key, None) and the
\* upload; the upload (upl: "fid", "nofid", "raise") stores the new handle
\* when the sent message exposes one.  Each put runs save() to its end.
MusicSendWithCache(k, byFid, upl) ==
    /\ cpc = "idle" /\ ops < MaxOps
    /\ Truthy(Get(cache, k)) \/ byFid = "stale"
    /\ (Truthy(Get(cache, k)) /\ byFid # "stale") => upl = "fid"
    /\ LET hit == Truthy(Get(cache, k))
           uploads == ~hit \/ byFid = "stale"
           c1 == IF hit /\ byFid = "stale"
                 THEN Put(cache, k, NoValue, NoText, NoText, "None") ELSE cache
           d1 == IF c1 # cache THEN Saved(disk, c1) ELSE disk
           stores == uploads /\ upl = "fid"
           c2 == IF stores THEN Put(c1, k, StrVal(<<"fidM">>), NoText, NoText, "None") ELSE c1
           d2 == IF stores THEN Saved(d1, c2) ELSE d1
       IN  /\ cache' = c2
           /\ disk' = d2
           /\ preOp' = IF stores THEN [mem |-> c1, main |-> d1["main"]]
                       ELSE [mem |-> cache, main |-> disk["main"]]
           /\ cur' = IF stores THEN [op |-> "put", k |-> k, v |-> StrVal(<<"fidM">>)]
                     ELSE IF c1 # cache THEN [op |-> "put", k |-> k, v |-> NoValue]
                     ELSE cur
           /\ lastPut' = IF stores THEN [lastPut EXCEPT ![k] = StrVal(<<"fidM">>)]
                         ELSE IF c1 # cache THEN [lastPut EXCEPT ![k] = NoValue]
                         ELSE lastPut
    /\ ops' = ops + 1
    /\ restarted' = FALSE
    /\ UNCHANGED <<cpc, expect>>

(***************************************************************************)
(* Gallery delivery (generic_handler.py: _upload_and_send gallery branch,   *)
(* _build_image_gallery_cache_fid, _send_by_file_id list branch)            *)
(***************************************************************************)
Min(a, b) == IF a < b THEN a ELSE b

\* range(0, len(items), 10): the number of slices
NumChunks(items) == (Len(items) + GroupSize - 1) \div GroupSize

\* items[i: i + 10] for the j-th start index i = 10 * (j - 1)
Chunk(items, j) ==
    SubSeq(items, (j - 1) * GroupSize + 1, Min(j * GroupSize, Len(items)))

MusicLink == <<"music-link">>

\* _upload_and_send: caption_text of item i (1-based here, 0-based there)
UploadCaption(i, title, audio) ==
    LET base == IF i = 1 THEN title ELSE NoText
    IN  IF i = 1 /\ audio
        THEN (IF base # NoText /\ base # <<>> THEN base \o MusicLink ELSE MusicLink)
        ELSE base

\* _upload_and_send: media_group_items, an InputMediaVideo for file_type
\* "video" and an InputMediaPhoto for anything else
UploadMedia(items, title, audio) ==
    [i \in 1..Len(items) |->
        [type |-> IF items[i] = "video" THEN "video" ELSE "photo",
         caption |-> UploadCaption(i, title, audio),
         media |-> <<"file", i>>]]

\* the handle Telegram gives to an uploaded or re-sent media item
HandleOf(media) == IF media[1] = "file" THEN <<"fid", media[2]>> ELSE media

\* bot.send_media_group: one message per item, in the order given
SentMessages(group) ==
    [i \in 1..Len(group) |->
        [video |-> group[i].type = "video", fid |-> HandleOf(group[i].media)]]

RECURSIVE SendAll(_, _)
\* the messages of slices j, j + 1, ... of a media list, all sent
SendAll(media, j) ==
    IF j > NumChunks(media) THEN <<>>
    ELSE SentMessages(Chunk(media, j)) \o SendAll(media, j + 1)

RECURSIVE PrefixAllAsImages(_)
\* a cache list that marks every handle as an image
PrefixAllAsImages(msgs) ==
    IF msgs = <<>> THEN <<>>
    ELSE (IF Head(msgs).fid # <<>> THEN << <<"IMAGE">> \o Head(msgs).fid >> ELSE <<>>)
            \o PrefixAllAsImages(Tail(msgs))

RECURSIVE PrefixAll(_)
\* _build_image_gallery_cache_fid: "VIDEO" + fid or "IMAGE" + fid per message
PrefixAll(msgs) ==
    IF msgs = <<>> THEN <<>>
    ELSE LET m == Head(msgs)
         IN  (IF m.fid # <<>>
              THEN << (IF m.video THEN <<"VIDEO">> ELSE <<"IMAGE">>) \o m.fid >>
              ELSE <<>>) \o PrefixAll(Tail(msgs))

RECURSIVE ReplayMedia(_, _)
\* _send_by_file_id: media_group_items rebuilt from the prefixed handles
ReplayMedia(files, caption) ==
    IF files = <<>> THEN <<>>
    ELSE LET f == Head(files)
             rest == ReplayMedia(Tail(files), caption)
         IN  IF StartsWith(f, <<"VIDEO">>)
             THEN <<[type |-> "video", caption |-> caption,
                     media |-> StripPrefix(f, <<"VIDEO">>)]>> \o rest
             ELSE IF StartsWith(f, <<"IMAGE">>)
             THEN <<[type |-> "photo", caption |-> caption,
                     media |-> StripPrefix(f, <<"IMAGE">>)]>> \o rest
             ELSE rest

\* _save_cache_fid: title = parse_result.html_title or parse_result.title,
\* where html_title is the caption_text of the LAST item built
CachedTitle(items, title, audio) ==
    LET last == UploadCaption(Len(items), title, audio)
    IN  IF last # NoText /\ last # <<>> THEN last ELSE title

Patterns == {1, 2, 3, MaxItems + 1}

\* a gallery of K items in which every m-th item is a video
Gallery(K, m) == [i \in 1..K |-> IF i % m = 0 THEN "video" ELSE "photo"]

GalIdle == [pc |-> "idle", items |-> <<>>, title |-> NoText, audio |-> FALSE,
            media |-> <<>>, groups |-> <<>>, msgs |-> <<>>]

GalInit == gal = GalIdle

\* a parsed gallery enters the upload step
GalUpload(K, m, title, audio) ==
    /\ gal.pc = "idle"
    /\ gal' = [GalIdle EXCEPT !.pc = "fresh", !.items = Gallery(K, m), !.title = title,
                              !.audio = audio,
                              !.media = UploadMedia(Gallery(K, m), title, audio)]

\* one sender.send_media_group call of either loop, successful
GalSendGroup ==
    /\ gal.pc \in {"fresh", "replay"}
    /\ Len(gal.groups) < NumChunks(gal.media)
    /\ LET g == Chunk(gal.media, Len(gal.groups) + 1)
       IN  gal' = [gal EXCEPT !.groups = Append(@, g), !.msgs = @ \o SentMessages(g)]

\* one sender.send_media_group call raises: the delivery is abandoned
GalSendFails ==
    /\ gal.pc \in {"fresh", "replay"}
    /\ Len(gal.groups) < NumChunks(gal.media)
    /\ gal' = [gal EXCEPT !.pc = "failed"]

\* the fresh upload has sent every slice: _save_cache_fid stores the
\* prefixed handles, and a later request replays them by _send_by_file_id
GalReplay ==
    /\ gal.pc = "fresh"
    /\ Len(gal.groups) = NumChunks(gal.media)
    /\ gal' = [gal EXCEPT !.pc = "replay",
                          !.title = CachedTitle(gal.items, gal.title, gal.audio),
                          !.media = ReplayMedia(PrefixAll(gal.msgs),
                                                CachedTitle(gal.items, gal.title, gal.audio)),
                          !.groups = <<>>, !.msgs = <<>>]

(***************************************************************************)
(* generic_command_handler (handlers/generic_handler.py) and                *)
(* _record_user_parse (recorder_parse.py)                                   *)
(***************************************************************************)
\* UserParseResult(uid=..., ...): success=False, exception=None, vid=None, fid={}
NewRecord == [success |-> FALSE, exception |-> FALSE, vid |-> NoVid, fid |-> FALSE]

NewCounts == [peek |-> 0, parse |-> 0, sbh |-> 0, put |-> 0, del |-> 0]

NewReq == [pc |-> "new", uid |-> 0, kind |-> "url", out |-> "none", ret |-> "None",
           rec |-> NewRecord, found |-> FALSE, foundList |-> FALSE, stale |-> FALSE,
           exc |-> FALSE, cnt |-> NewCounts, replies |-> {}, progress |-> "unbound",
           oversize |-> FALSE, fault |-> "none", parsed |-> "none"]

\* a message with a link in it (text, or a command with its argument), a bare
\* command, or a message no parser is registered for
Kinds == {"url", "cmd_noargs", "noparser"}

\* what Resolver.parse can do: raise, or return failure, a link text, a video with
\* quality options, a plain video, audio, a gallery, or nothing to send
ParseShapes ==
    { [success |-> FALSE, ctype |-> "raise", quality |-> FALSE, big |-> FALSE, nitems |-> 0],
      [success |-> FALSE, ctype |-> "unknown", quality |-> FALSE, big |-> FALSE, nitems |-> 0],
      [success |-> TRUE, ctype |-> "link", quality |-> FALSE, big |-> FALSE, nitems |-> 0],
      [success |-> TRUE, ctype |-> "video", quality |-> TRUE, big |-> FALSE, nitems |-> 1],
      [success |-> TRUE, ctype |-> "video", quality |-> TRUE, big |-> TRUE, nitems |-> 1],
      [success |-> TRUE, ctype |-> "video", quality |-> FALSE, big |-> FALSE, nitems |-> 1],
      [success |-> TRUE, ctype |-> "video", quality |-> FALSE, big |-> TRUE, nitems |-> 1],
      [success |-> TRUE, ctype |-> "audio", quality |-> FALSE, big |-> FALSE, nitems |-> 1],
      [success |-> TRUE, ctype |-> "video", quality |-> FALSE, big |-> FALSE, nitems |-> 0] }
    \cup { [success |-> TRUE, ctype |-> "image_gallery", quality |-> FALSE, big |-> FALSE,
            nitems |-> n] : n \in 1..MaxPipeItems }

BeginFaults == {"none", "react", "usage", "placeholder", "typing", "stale", "senderr"}

\* the calls of a kind of message that can raise before or at the cache lookup
BeginFaultsOf(kind) ==
    IF kind = "cmd_noargs" THEN {"none"}
    ELSE IF kind = "noparser" THEN {"none", "react", "usage"}
    ELSE BeginFaults \ {"usage"}

DeliverFaults == {"none", "edit", "send", "fallback"}

\* the calls that can raise on the way of a parse result to the user
DeliverFaultsOf(res) ==
    IF res.ctype = "raise" THEN {"none"}
    ELSE IF ~res.success THEN {"none", "edit"}
    ELSE IF res.ctype = "link" THEN {"none", "send"}
    ELSE IF res.quality THEN {"none", "send", "fallback"}
    ELSE {"none", "edit", "send"}

\* config.IMAGES_CACHE_SWITCH and isinstance(file_id, list): the hit is passed over
HitSuppressedInverted(sw, value) == ~sw /\ value.kind = "list"

HitSuppressed(sw, value) == sw /\ value.kind = "list"

\* the except clause: sender.send(EXCEPTION_MSG); record.exception = str(e).
\* When that send raises too, the exception leaves the handler (after finally).
ExceptPath(q, excOk) ==
    IF excOk
    THEN [q EXCEPT !.pc = "finishing", !.out = "returned", !.ret = "None", !.exc = TRUE,
                   !.replies = @ \cup {"error"}, !.rec = [@ EXCEPT !.exception = TRUE]]
    ELSE [q EXCEPT !.pc = "finishing", !.out = "raised", !.ret = "None", !.exc = TRUE]

\* a return statement inside the try block
Return(q, ret) ==
    [q EXCEPT !.pc = "finishing", !.out = "returned", !.ret = ret, !.fault = "none"]

\* _send_by_file_id: text for a catbox link, send_document for one handle,
\* media groups for a list; anything else raises ValueError
SendByHandleRaises(value, fault) ==
    \/ fault \in {"stale", "senderr"}
    \/ value.kind \notin {"str", "list"}

\* lines 90-148: argument extraction and reaction (outside the try block),
\* then usage replies, placeholder, typing, peek, cache lookup and the send
\* by cached handle
BeginStep(q, mem, sw, fault, peek, excOk) ==
    IF q.kind = "cmd_noargs" \/ fault = "react"
    THEN [q EXCEPT !.pc = "done", !.out = "escaped"]
    ELSE IF q.kind = "noparser"
    THEN (IF fault = "usage" THEN ExceptPath(q, excOk)
          ELSE Return([q EXCEPT !.replies = @ \cup {"usage"}], "None"))
    ELSE IF fault = "placeholder" THEN ExceptPath(q, excOk)
    ELSE LET q1 == [q EXCEPT !.progress = "shown", !.replies = @ \cup {"placeholder"}]
         IN  IF fault = "typing" THEN ExceptPath(q1, excOk)
             ELSE LET vid == peek  \* NoVid also when peek() raised (lines 112-116)
                      q2 == [q1 EXCEPT !.cnt = [@ EXCEPT !.peek = @ + 1]]
                  IN  IF vid # NoVid /\ GetFull(mem, vid).present
                      THEN LET value == GetFull(mem, vid).value
                               q3 == [q2 EXCEPT !.found = TRUE,
                                                !.foundList = (value.kind = "list")]
                           IN  IF HitSuppressed(sw, value)
                               THEN [q3 EXCEPT !.pc = "parsing", !.fault = "none"]
                               ELSE LET q4 == [q3 EXCEPT !.cnt = [@ EXCEPT !.sbh = @ + 1]]
                                    IN  IF SendByHandleRaises(value, fault)
                                        THEN ExceptPath([q4 EXCEPT !.stale = (fault = "stale")],
                                                        excOk)
                                        ELSE Return([q4 EXCEPT
                                                        !.rec = [@ EXCEPT !.success = TRUE],
                                                        !.replies = @ \cup {"media"}], "True")
                      ELSE [q2 EXCEPT !.pc = "parsing", !.fault = "none"]

\* a copy of the result into the record that leaves the error message out
SyncRecordWithoutMessage(rec, res, vid) ==
    [rec EXCEPT !.success = res.success, !.vid = vid]

\* _sync_record_with_result
SyncRecord(rec, res, vid) ==
    [rec EXCEPT !.success = res.success, !.vid = vid,
                !.exception = IF res.success THEN @ ELSE TRUE]

\* _send_quality_selection: [ok, msg kind, progress, reply] where ok = FALSE
\* stands for the implicit "return None" after the fallback send failed
QualitySend(q, res, fault) ==
    IF ~res.big /\ fault \notin {"send", "fallback"}
    THEN [ok |-> TRUE, media |-> TRUE, progress |-> "deleted", reply |-> "media"]
    ELSE IF fault = "fallback"
    THEN [ok |-> FALSE, media |-> FALSE,
          progress |-> IF res.big THEN q.progress ELSE "deleted", reply |-> "none"]
    ELSE [ok |-> TRUE, media |-> FALSE,
          progress |-> IF res.big THEN q.progress ELSE "deleted", reply |-> "quality_text"]

\* _upload_and_send: [raised, msg ("none", "one" or "list"), progress, replies]
UploadSend(q, res, fault) ==
    IF res.ctype \in {"video", "audio"} /\ res.nitems > 0
    THEN IF res.ctype = "video" /\ res.big
         THEN \* the notice replaces the placeholder, then upload() and
              \* cache_put(..., special="catbox"), which put() does not accept
              [raised |-> TRUE, msg |-> "none",
               progress |-> IF fault = "send" THEN "deleted" ELSE "notice",
               replies |-> IF fault = "send" THEN {} ELSE {"notice"}]
         ELSE IF fault = "edit"
         THEN [raised |-> TRUE, msg |-> "none", progress |-> q.progress, replies |-> {}]
         ELSE IF fault = "send"
         THEN [raised |-> TRUE, msg |-> "none",
               progress |-> IF res.ctype = "video" THEN "deleted" ELSE q.progress,
               replies |-> {}]
         ELSE [raised |-> FALSE, msg |-> "one",
               progress |-> IF res.ctype = "video" THEN "deleted" ELSE q.progress,
               replies |-> {"media"}]
    ELSE IF res.ctype = "image_gallery" /\ res.nitems > 0
    THEN IF fault = "edit"
         THEN [raised |-> TRUE, msg |-> "none", progress |-> q.progress, replies |-> {}]
         ELSE IF fault = "send"
         THEN [raised |-> TRUE, msg |-> "none", progress |-> "failtext", replies |-> {}]
         ELSE [raised |-> FALSE, msg |-> "list", progress |-> "deleted",
               replies |-> {"media"}]
    ELSE IF fault = "edit"
    THEN [raised |-> TRUE, msg |-> "none", progress |-> q.progress, replies |-> {}]
    ELSE [raised |-> FALSE, msg |-> "none", progress |-> "notice", replies |-> {}]

\* the messages a gallery of n items comes back as, slice after slice
GalleryMessages(n) == SendAll(UploadMedia(Gallery(n, 2), <<"T">>, FALSE), 1)

\* _save_cache_fid: the value to store, NoValue when nothing is stored
\* (no file id in the message, or an empty album list)
CacheValueOf(res, msg, hasFid) ==
    IF res.ctype \in {"video", "audio"}
    THEN (IF msg = "one" /\ hasFid THEN StrVal(<<"fid", 0>>) ELSE NoValue)
    ELSE IF res.ctype = "image_gallery" /\ msg = "list"
    THEN (IF PrefixAll(GalleryMessages(res.nitems)) # <<>>
          THEN ListVal(PrefixAll(GalleryMessages(res.nitems))) ELSE NoValue)
    ELSE NoValue

\* lines 204-206: "if msg and parse_result.vid: await _save_cache_fid(...)"
Stored(res, vid, msg, hasFid) ==
    msg # "none" /\ vid # NoVid /\ CacheValueOf(res, msg, hasFid) # NoValue

SaveCacheFid(mem, res, vid, msg, hasFid, reply) ==
    IF Stored(res, vid, msg, hasFid)
    THEN Put(mem, vid, CacheValueOf(res, msg, hasFid), <<"T">>, reply, "HTML")
    ELSE mem

\* lines 360-363: a plain video of more than 50 MB
Oversize(res) ==
    res.success /\ res.ctype = "video" /\ ~res.quality /\ res.big /\ res.nitems > 0

\* cache_put() has been called by the handler: by _save_cache_fid after the
\* send (lines 204-206, 238, 253), or on the oversize path at line 377, once
\* the notice is out and the file uploaded, before the link is sent (line 378)
PutCalled(q) == q.cnt.put > 0 \/ (q.oversize /\ "notice" \in q.replies)

\* lines 150-208: parse, then the reply that the result calls for, then the
\* cache write; gives the handler's locals and _cache afterwards
ParseDeliverStep(q, mem, res, vid, fault, hasFid, excOk) ==
    LET q1 == [q EXCEPT !.cnt = [@ EXCEPT !.parse = @ + 1], !.oversize = Oversize(res),
                       !.fault = fault,
                       !.parsed = IF res.ctype = "raise" THEN "raised"
                                  ELSE IF res.success THEN "success" ELSE "failure"]
        q2 == [q1 EXCEPT !.rec = SyncRecord(@, res, vid)]
    IN  IF res.ctype = "raise" THEN [q |-> ExceptPath(q1, excOk), mem |-> mem]
        ELSE IF ~res.success
        THEN (IF fault = "edit" THEN [q |-> ExceptPath(q2, excOk), mem |-> mem]
              ELSE [q |-> Return([q2 EXCEPT !.progress = "error"], "None"), mem |-> mem])
        ELSE IF res.ctype = "link"
        THEN (IF fault = "send" THEN [q |-> ExceptPath(q2, excOk), mem |-> mem]
              ELSE [q |-> Return([q2 EXCEPT !.replies = @ \cup {"link"}], "True"),
                    mem |-> mem])
        ELSE IF res.quality
        THEN LET s == QualitySend(q2, res, fault)
                 q3 == [q2 EXCEPT !.progress = s.progress,
                                  !.replies = IF s.reply = "none" THEN @ ELSE @ \cup {s.reply}]
                 msg == IF s.media THEN "one" ELSE "text"
                 mem2 == SaveCacheFid(mem, res, vid, msg, hasFid, <<"keyboard">>)
             IN  IF ~s.ok THEN [q |-> ExceptPath(q3, excOk), mem |-> mem]
                 ELSE [q |-> Return([q3 EXCEPT !.cnt = [@ EXCEPT !.put =
                                          IF Stored(res, vid, msg, hasFid) THEN @ + 1 ELSE @]], "True"),
                       mem |-> mem2]
        ELSE LET u == UploadSend(q2, res, fault)
                 q3 == [q2 EXCEPT !.progress = u.progress, !.replies = @ \cup u.replies]
                 mem2 == SaveCacheFid(mem, res, vid, u.msg, hasFid, NoText)
             IN  IF u.raised THEN [q |-> ExceptPath(q3, excOk), mem |-> mem]
                 ELSE [q |-> Return([q3 EXCEPT !.cnt = [@ EXCEPT !.put =
                                          IF Stored(res, vid, u.msg, hasFid) THEN @ + 1 ELSE @]], "True"),
                       mem |-> mem2]

\* _record_user_parse: the record appended for a handler's UserParseResult;
\* is_cached_hit = bool(info.fid), and a hit record carries no vid
RecordOf(r, q) ==
    [req |-> r, uid |-> q.uid,
     is_cached_hit |-> q.rec.fid,
     parse_success |-> q.rec.success,
     parse_exception |-> q.rec.exception,
     vid |-> IF q.rec.fid THEN NoVid ELSE q.rec.vid]

\* a cache file written by earlier runs: per vid nothing, one handle, or an album
PipeRaws ==
    { RawAbsent,
      [present |-> TRUE, fmt |-> "dict", title |-> <<"T">>, value |-> StrVal(<<"fid", 0>>),
       reply |-> NoText, parse_mode |-> "HTML", special |-> "None"],
      [present |-> TRUE, fmt |-> "dict", title |-> <<"T">>,
       value |-> ListVal(<< <<"IMAGE", "fid", 1>>, <<"VIDEO", "fid", 2>> >>),
       reply |-> NoText, parse_mode |-> "HTML", special |-> "None"] }

PipeInit ==
    /\ locks = [u \in Uids |-> FALSE]
    /\ stats = [u \in Uids |-> <<>>]
    /\ req = [r \in Reqs |-> NewReq]
    /\ frame = NewReq
    /\ switch \in BOOLEAN
    /\ now = StartTime
    /\ last_sent = [u \in Uids |-> 0]
    /\ calls = <<>>
    /\ \E data \in [Vids -> PipeRaws] :
          disk = [f \in FileNames |->
                     IF f = "main"
                     THEN (IF \A k \in Vids : ~data[k].present THEN NoFile
                           ELSE [exists |-> TRUE, complete |-> TRUE, data |-> data])
                     ELSE NoFile]
    /\ cache = Load(disk["main"], EmptyCache)
    /\ cpc = "idle" /\ cur = NoOp
    /\ preOp = [mem |-> EmptyCache, main |-> NoFile]
    /\ lastPut = [k \in Vids |-> NoValue]
    /\ expect = [mid |-> FALSE, mem |-> EmptyCache]
    /\ restarted = FALSE /\ ops = 0

cacheGhost == <<cpc, cur, preOp, lastPut, expect, restarted, ops>>

\* lines 214-223, the finally block, as seen in the handler's frame
FinallyFrame(q) ==
    [q EXCEPT !.pc = "done",
              !.progress = IF @ # "unbound" /\ q.rec.success THEN "deleted" ELSE @]

\* what is left of a handler once its frame is gone
Left(q) == [NewReq EXCEPT !.pc = "done", !.uid = q.uid, !.out = q.out, !.ret = q.ret]

RateLimitedWithReply(q, u) ==
    [q EXCEPT !.pc = "done", !.uid = u, !.out = "ratelimited", !.replies = {"toofast"}]

\* lines 83-85: the rate gate turns the message away with a bare return
RateLimited(q, u) == [q EXCEPT !.pc = "done", !.uid = u, !.out = "ratelimited"]

\* lines 53-88: a message of uid u reaches the handler: rate gate at the
\* clock reading t (no measurable time after the previous reading, or the
\* end of the horizon), then the task gate
Enter(r, u) ==
    /\ frame.pc = "new"
    /\ req[r].pc = "new"
    /\ IF r = 1 THEN TRUE ELSE req[r - 1].pc # "new"
    /\ \E t \in {now, PipeMaxTime} :
          /\ now' = t
          /\ last_sent' = AfterAllow(last_sent, u, t)
          /\ IF ~Admits(last_sent[u], t)
             THEN /\ req' = [req EXCEPT ![r] = RateLimited(@, u)]
                  /\ UNCHANGED locks
             ELSE IF ~AcquireOk(locks, u)
             THEN /\ req' = [req EXCEPT ![r] = [@ EXCEPT !.pc = "done", !.uid = u,
                                                          !.out = "busy",
                                                          !.replies = {"busy"}]]
                  /\ locks' = AfterAcquire(locks, u)
             ELSE /\ req' = [req EXCEPT ![r] = [@ EXCEPT !.pc = "admitted", !.uid = u]]
                  /\ locks' = AfterAcquire(locks, u)
    /\ frame' = NewReq
    /\ UNCHANGED <<calls, cache, disk, cacheGhost, stats, switch, gal, auxVars, toolVars>>

\* the handler leaves: through finally (lock released, record appended), or,
\* for an exception of lines 90-93, past it
Leave(r, q) ==
    /\ req' = [req EXCEPT ![r] = Left(q)]
    /\ IF q.out = "escaped"
       THEN /\ frame' = [q EXCEPT !.pc = "done"]
            /\ UNCHANGED <<locks, stats>>
       ELSE /\ frame' = FinallyFrame(q)
            /\ locks' = AfterRelease(locks, q.uid)
            /\ stats' = [stats EXCEPT ![q.uid] = Append(@, RecordOf(r, q))]

\* lines 90-148, and lines 210-223 when the handler ends here
Begin(r) ==
    /\ frame.pc = "new"
    /\ req[r].pc = "admitted"
    /\ \E kind \in Kinds, peek \in 0..NumVids, excOk \in BOOLEAN :
       \E fault \in BeginFaultsOf(kind) :
          LET q == BeginStep([req[r] EXCEPT !.kind = kind, !.fault = fault],
                             cache, switch, fault, peek, excOk)
          IN  /\ excOk \/ q.exc
              /\ fault \in {"stale", "senderr"} => q.cnt.sbh = 1
              /\ IF q.pc = "parsing"
                 THEN req' = [req EXCEPT ![r] = q] /\ frame' = NewReq /\ UNCHANGED <<locks, stats>>
                 ELSE Leave(r, q)
    /\ UNCHANGED <<limVars, cache, disk, cacheGhost, switch, gal, auxVars, toolVars>>

\* the frame of the handler that has ended is dropped before the event loop
\* runs the next step of any handler
Forget ==
    /\ frame.pc # "new"
    /\ frame' = NewReq
    /\ UNCHANGED <<limVars, cacheVars, locks, stats, req, switch, gal, auxVars, toolVars>>

\* lines 150-223
ParseDeliver(r) ==
    /\ frame.pc = "new"
    /\ req[r].pc = "parsing"
    /\ \E res \in ParseShapes, vid \in 0..NumVids, hasFid \in BOOLEAN, excOk \in BOOLEAN :
       \E fault \in DeliverFaultsOf(res) :
          LET o == ParseDeliverStep(req[r], cache, res, vid, fault, hasFid, excOk)
          IN  /\ excOk \/ o.q.exc
              /\ hasFid \/ (res.ctype \in {"video", "audio"} /\ "media" \in o.q.replies)
              /\ Leave(r, o.q)
              /\ cache' = o.mem
              /\ disk' = IF o.q.cnt.put > req[r].cnt.put THEN Saved(disk, o.mem) ELSE disk
    /\ UNCHANGED <<limVars, cacheGhost, switch, gal, auxVars, toolVars>>

(***************************************************************************)
(* Downloader (PublicMethods/m_download.py)                                 *)
(* Sizes and offsets are counted in MiB.                                    *)
(***************************************************************************)
\* download(): total_size < 1024 * 1024 * 2 goes to the single download
SegMinSize == 2

\* SegmentDownloader(max_retries = 3)
SegMaxRetries == 3

\* _single_download(retry = 3)
SingleRetries == 3

\* the resource behind the URL, as a single-stream GET delivers it: the
\* bytes at offsets 0..S-1
Content(S) == [i \in 1..S |-> i - 1]

\* part_size = total_size // self.threads
PartSize(S, N) == S \div N

\* start_byte = i * part_size
StartByte(i, S, N) == i * PartSize(S, N)

\* an end_byte that gives every segment part_size bytes
EndByteWithoutRemainder(i, S, N) == (i + 1) * PartSize(S, N) - 1

\* end_byte: the last segment takes the remainder
EndByte(i, S, N) == IF i < N - 1 THEN (i + 1) * PartSize(S, N) - 1 ELSE S - 1

\* the segments that get a worker (start_byte > end_byte is skipped)
Segments(S, N) == {i \in 0..(N - 1) : StartByte(i, S, N) <= EndByte(i, S, N)}

\* the body of the response to GET with Range: bytes=a-b; a server that
\* does not honour Range answers with the whole resource
Served(a, b, S, ranges) == IF ranges THEN SubSeq(Content(S), a + 1, b + 1) ELSE Content(S)

\* the body of a response whose stream ended one unit early without an error
CutShort(body) == SubSeq(body, 1, Len(body) - 1)

NoPart == [st |-> "none", tries |-> 0, data |-> <<>>]

DlIdle ==
    [pc |-> "idle", size |-> 0, threads |-> 0, ranges |-> TRUE,
     parts |-> [i \in 0..(MaxThreads - 1) |-> NoPart],
     tries |-> 0, curl |-> FALSE, out |-> "none", via |-> "none",
     exists |-> FALSE, file |-> <<>>, fallback |-> "none",
     ctr |-> 0, pooled |-> FALSE, alive |-> {}, stray |-> {}, closedInUse |-> FALSE]

\* a merge that takes the part files from the highest start byte down
RECURSIVE MergedDescending(_, _)
MergedDescending(parts, segs) ==
    IF segs = {} THEN <<>>
    ELSE LET i == CHOOSE x \in segs : \A y \in segs : x >= y
         IN  parts[i].data \o MergedDescending(parts, segs \ {i})

\* step 9 of download(): the part files in the order of their start byte
RECURSIVE Merged(_, _)
Merged(parts, segs) ==
    IF segs = {} THEN <<>>
    ELSE LET i == CHOOSE x \in segs : \A y \in segs : x <= y
         IN  parts[i].data \o Merged(parts, segs \ {i})

\* download() up to the start of the workers: _get_final_url and HEAD
\* (probe), then the choice between the single and the segmented download
DlStart(S, N, ranges, probe, pooled) ==
    /\ dl.pc = "idle"
    /\ LET d0 == [dl EXCEPT !.size = S, !.threads = N, !.ranges = ranges]
       IN  dl' = IF probe = "fail"
                 THEN [d0 EXCEPT !.pc = "done", !.out = "DownloadError"]
                 ELSE IF probe = "nolength" \/ S < SegMinSize \/ N = 1
                 THEN [d0 EXCEPT !.pc = "single"]
                 ELSE [d0 EXCEPT !.pc = "segments", !.ctr = 0, !.pooled = pooled,
                                 !.parts = [i \in 0..(MaxThreads - 1) |->
                                               IF i \in Segments(S, N)
                                               THEN [NoPart EXCEPT !.st = "run"]
                                               ELSE NoPart]]

\* the bytes a worker's attempt has streamed, each added to downloaded_ctr
\* as its chunk arrives: the whole body, the body cut short, the first unit
\* of a stream that then broke, or nothing when the request itself failed
Streamed(body, o) ==
    IF o = "ok" THEN Len(body)
    ELSE IF o = "short" THEN Len(body) - 1
    ELSE IF o = "broke" THEN 1
    ELSE 0

\* SegmentDownloader.run, one attempt of worker i: a response that ended
\* (whatever its length) is a success, an exception ("fail" before the
\* first chunk, "broke" after it) is a retry, and the last failed attempt
\* reports None
DlWorker(i, o) ==
    /\ dl.pc = "segments" /\ dl.parts[i].st = "run"
    /\ LET body == Served(StartByte(i, dl.size, dl.threads), EndByte(i, dl.size, dl.threads),
                          dl.size, dl.ranges)
           p == dl.parts[i]
       IN  dl' = [dl EXCEPT !.ctr = @ + Streamed(body, o),
                            !.parts[i] =
                    IF o \in {"fail", "broke"}
                    THEN IF p.tries + 1 = SegMaxRetries
                         THEN [st |-> "failed", tries |-> p.tries + 1, data |-> <<>>]
                         ELSE [p EXCEPT !.tries = @ + 1]
                    ELSE [p EXCEPT !.st = "ok",
                                   !.data = IF o = "short" THEN CutShort(body) ELSE body]]

\* steps 7-9 of download() when every worker has ended in time: a None
\* result falls back to the single download, else the parts are merged and
\* renamed to path (an IOError of the merge raises DownloadError)
DlJoin(ioerr) ==
    /\ dl.pc = "segments"
    /\ \A i \in 0..(MaxThreads - 1) : dl.parts[i].st # "run"
    /\ LET segs == {i \in 0..(MaxThreads - 1) : dl.parts[i].st # "none"}
           clean == [i \in 0..(MaxThreads - 1) |-> NoPart]
       IN  dl' = IF \E i \in segs : dl.parts[i].st = "failed"
                 THEN [dl EXCEPT !.pc = "single", !.parts = clean, !.fallback = "failed"]
                 ELSE IF ioerr
                 THEN [dl EXCEPT !.pc = "done", !.out = "DownloadError"]
                 ELSE [dl EXCEPT !.pc = "done", !.out = "path", !.via = "segmented",
                                 !.exists = TRUE, !.file = Merged(dl.parts, segs),
                                 !.parts = clean]
    /\ (ioerr => \A i \in 0..(MaxThreads - 1) : dl.parts[i].st # "failed")

\* step 7 of download(): the deadline passes while a worker is alive; the
\* part files are removed and the single download takes over
DlJoinTimeout ==
    /\ dl.pc = "segments"
    /\ \E i \in 0..(MaxThreads - 1) : dl.parts[i].st = "run"
    /\ dl' = [dl EXCEPT !.pc = "single", !.parts = [i \in 0..(MaxThreads - 1) |-> NoPart],
                        !.fallback = "deadline",
                        !.alive = {i \in 0..(MaxThreads - 1) : dl.parts[i].st = "run"},
                        !.closedInUse = dl.pooled]

\* a worker that was alive at the deadline goes on after download() has
\* turned to the single download (nothing stops or joins it): its attempt
\* ends and leaves its part file, or its last attempt fails
DlLateWorker(i, o) ==
    /\ dl.pc \in {"single", "done"} /\ i \in dl.alive
    /\ dl' = [dl EXCEPT !.alive = @ \ {i},
                        !.stray = IF o = "ok" THEN @ \cup {i} ELSE @]

\* _single_download, one turn of the retry loop: "ok" streams the body to
\* path.single_part and renames it; "status" is a response that fails
\* raise_for_status or whose stream breaks; "conn" is a get() that raises
\* before `curl` is bound.  After the last failed turn the function returns
\* path.
DlSingle(o) ==
    /\ dl.pc = "single"
    /\ LET failed == IF dl.tries + 1 = SingleRetries
                     THEN [dl EXCEPT !.pc = "done", !.out = "path", !.via = "single",
                                     !.tries = @ + 1]
                     ELSE [dl EXCEPT !.tries = @ + 1]
       IN  dl' = CASE o = "ok" ->
                        [dl EXCEPT !.pc = "done", !.out = "path", !.via = "single",
                                   !.exists = TRUE, !.file = Content(dl.size)]
                   [] o = "status" -> [failed EXCEPT !.curl = TRUE]
                   [] o = "conn" ->
                        IF dl.curl THEN failed
                        ELSE [dl EXCEPT !.pc = "done", !.out = "UnboundLocalError"]

(***************************************************************************)
(* UsageRecorder files (recorder_parse.py: _record_user_parse)              *)
(***************************************************************************)
\* STATS_FILE, STATS_FILE_BAK, STATS_FILE_TMP
RecFiles == {"main", "bak", "tmp"}

\* current_data = {}
NoLog == [u \in Uids |-> <<>>]

NoRecFile == [exists |-> FALSE, ok |-> FALSE, data |-> NoLog]

\* step 1 of _record_user_parse: the main file if it exists; the backup only
\* when the main file exists and does not decode; else the empty log
RecLoad(fs) ==
    IF ~fs["main"].exists THEN NoLog
    ELSE IF fs["main"].ok THEN fs["main"].data
    ELSE IF fs["bak"].exists /\ fs["bak"].ok THEN fs["bak"].data
    ELSE NoLog

\* the record ids held by a log
IdsOf(log) == UNION {{log[u][i] : i \in 1..Len(log[u])} : u \in Uids}

RecIdle ==
    [pc |-> "idle", files |-> [f \in RecFiles |-> NoRecFile], n |-> 0, written |-> {}]

\* load, append the record of uid u, and step 2: json.dump to the temp file.
\* A failed dump leaves a partial temp file and returns.
RecWrite(u, fail) ==
    /\ rlog.pc = "idle" /\ rlog.n < MaxRecs
    /\ LET data == [RecLoad(rlog.files) EXCEPT ![u] = Append(@, rlog.n + 1)]
       IN  rlog' = [rlog EXCEPT
                       !.n = @ + 1,
                       !.files["tmp"] = [exists |-> TRUE, ok |-> ~fail, data |-> data],
                       !.pc = IF fail THEN "idle" ELSE "tmp"]

\* step 3, first half: os.replace(STATS_FILE, STATS_FILE_BAK) when the main
\* file exists; an exception is logged and the function returns
RecBackup(fail) ==
    /\ rlog.pc = "tmp"
    /\ fail => rlog.files["main"].exists
    /\ rlog' = IF fail THEN [rlog EXCEPT !.pc = "idle"]
               ELSE IF rlog.files["main"].exists
               THEN [rlog EXCEPT !.pc = "swap",
                                 !.files["bak"] = rlog.files["main"],
                                 !.files["main"] = NoRecFile]
               ELSE [rlog EXCEPT !.pc = "swap"]

\* step 3, second half: os.replace(STATS_FILE_TMP, STATS_FILE)
RecReplace(fail) ==
    /\ rlog.pc = "swap"
    /\ rlog' = IF fail THEN [rlog EXCEPT !.pc = "idle"]
               ELSE [rlog EXCEPT !.pc = "idle",
                                 !.files["main"] = rlog.files["tmp"],
                                 !.files["tmp"] = NoRecFile,
                                 !.written = @ \cup {rlog.n}]

\* the process dies between two steps of a write and is started again
RecKill ==
    /\ rlog.pc # "idle"
    /\ rlog' = [rlog EXCEPT !.pc = "idle"]

(***************************************************************************)
(* Routing of an update (bot.py main, handlers/general.py) and the entry    *)
(* gates of the platform handlers                                           *)
(***************************************************************************)
\* general.py: the platforms handle_general_url tells apart
Platforms == {"bilibili", "douyin", "music", "xhs", "tiktok", "unknow"}

\* bot.py: the platform commands registered as CommandHandler
CommandPlatforms == {"bilibili", "douyin", "music", "xhs"}

\* the RateLimiter/TaskManager pairs of the process: the module instances of
\* generic_handler.py, and the pair _inject_singletons gives to bilibili,
\* douyin, music (and status)
Pools == {"generic", "injected"}

PoolOf(p) == IF p \in {"bilibili", "douyin", "music"} THEN "injected" ELSE "generic"

NewMsg ==
    [pc |-> "new", uid |-> 0, via |-> "text", platform |-> "unknow", gate |-> "none",
     end |-> "none", r |-> "unset", replied |-> FALSE, deleted |-> FALSE,
     glyph |-> "none", recorded |-> FALSE]

DispIdle ==
    [black |-> {}, t |-> StartTime,
     sent |-> [pl \in Pools |-> [u \in Uids |-> 0]],
     lk |-> [pl \in Pools |-> [u \in Uids |-> FALSE]],
     msg |-> [m \in 1..NumMsgs |-> NewMsg]]

\* what the platform entry point hands back to its caller: xhs_command and
\* unknow_command drop the result of generic_command_handler, tiktok_command
\* returns it, and the handlers of bilibili, douyin and music return the
\* message they sent (also for "too frequent" and "task running")
HandlerResult(p, end) ==
    IF end = "raised" THEN "raise"
    ELSE IF PoolOf(p) = "injected"
    THEN IF end = "failed" THEN "None" ELSE "Message"
    ELSE IF p = "tiktok" /\ end = "success" THEN "True"
    ELSE "None"

\* `if r:`
IsTruthy(r) == r \in {"True", "Message"}

\* handle_general_url after the handler came back: r starts as True and is
\* assigned only when the handler returns; an exception is answered with
\* EXCEPTION_MSG; `if r` deletes the user's message and picks the glyph
Dispatched(q, res) ==
    LET r == IF res = "raise" THEN "True" ELSE res
    IN  [q EXCEPT !.r = r, !.deleted = IsTruthy(r),
                  !.glyph = IF IsTruthy(r) THEN "ok" ELSE "fail",
                  !.replied = @ \/ res = "raise"]

\* the handler of message q has ended as `end`
Finished(q, end) ==
    LET q1 == [q EXCEPT !.pc = "done", !.end = end]
    IN  IF q.via = "text" THEN Dispatched(q1, HandlerResult(q.platform, end)) ELSE q1

\* an update arrives dt seconds after the previous one: a platform command
\* goes straight to its handler, any other message to handle_general_url
\* (blacklist, then the handler chosen by the regexes); the handler runs
\* rate_limiter.allow and task_manager.acquire of its pool
DispArrive(m, u, via, p, dt) ==
    /\ disp.msg[m].pc = "new"
    /\ IF m = 1 THEN TRUE ELSE disp.msg[m - 1].pc # "new"
    /\ via = "command" => p \in CommandPlatforms
    /\ LET t1 == disp.t + dt
           pl == PoolOf(p)
           q0 == [NewMsg EXCEPT !.uid = u, !.via = via, !.platform = p]
           d0 == [disp EXCEPT !.t = t1]
       IN  disp' =
             IF via = "text" /\ u \in disp.black
             THEN [d0 EXCEPT !.msg[m] = [q0 EXCEPT !.pc = "ignored"]]
             ELSE IF ~Admits(disp.sent[pl][u], t1)
             THEN [d0 EXCEPT !.msg[m] =
                      Finished([q0 EXCEPT !.gate = "ratelimited",
                                          !.replied = (pl = "injected")], "ratelimited")]
             ELSE IF ~AcquireOk(disp.lk[pl], u)
             THEN [d0 EXCEPT !.sent[pl] = AfterAllow(@, u, t1),
                             !.msg[m] = Finished([q0 EXCEPT !.gate = "busy", !.replied = TRUE],
                                                 "busy")]
             ELSE [d0 EXCEPT !.sent[pl] = AfterAllow(@, u, t1),
                             !.lk[pl] = AfterAcquire(@, u),
                             !.msg[m] = [q0 EXCEPT !.pc = "running", !.gate = "admitted"]]

\* the admitted handler of message m ends: it sent its result, or failed
\* and said so, or raised; an exception raised before the try block leaves
\* without release and without a usage record (leak)
DispFinish(m, end, leak) ==
    /\ disp.msg[m].pc = "running"
    /\ leak => (end = "raised" /\ disp.msg[m].platform # "music")
    /\ LET q == disp.msg[m]
           pl == PoolOf(q.platform)
       IN  disp' = [disp EXCEPT
                      !.lk[pl] = IF leak THEN @ ELSE AfterRelease(@, q.uid),
                      !.msg[m] = Finished([q EXCEPT !.recorded = ~leak,
                                                    !.replied = (end # "raised")], end)]

(***************************************************************************)
(* /getcache (handlers/cache.py) and _send_by_file_id                       *)
(***************************************************************************)
NoSend == [kind |-> "none", caption |-> <<>>, reply |-> NoText, parse_mode |-> "None"]

\* a send handed to Telegram: rejected (BadRequest), or gone out as built
Transport(msg, tx) ==
    IF tx = "reject" THEN [raised |-> TRUE, exc |-> "BadRequest", msg |-> NoSend]
    ELSE [raised |-> FALSE, exc |-> "none", msg |-> msg]

\* _send_by_file_id(sender, file_id, caption, *, reply_markup, parse_mode,
\* special): special is keyword-only and has no default, so a call without
\* it raises TypeError before the body runs ("missing")
SendByFileId(file_id, caption, reply_markup, parse_mode, special, tx) ==
    IF special = "missing"
    THEN [raised |-> TRUE, exc |-> "TypeError", msg |-> NoSend]
    ELSE IF special = "catbox"
    THEN Transport([kind |-> "text", caption |-> caption, reply |-> NoText,
                    parse_mode |-> parse_mode], tx)
    ELSE IF file_id.kind = "str"
    THEN Transport([kind |-> "document", caption |-> caption, reply |-> reply_markup,
                    parse_mode |-> parse_mode], tx)
    ELSE IF file_id.kind = "list"
    THEN Transport([kind |-> "group", caption |-> caption, reply |-> NoText,
                    parse_mode |-> "HTML"], tx)
    ELSE [raised |-> TRUE, exc |-> "ValueError", msg |-> NoSend]

GcIdle ==
    [ran |-> FALSE, admin |-> FALSE, k |-> 1, had |-> FALSE, entry |-> Absent,
     tx |-> "ok", exc |-> "none", msg |-> NoSend, kept |-> FALSE, replies |-> {}]

\* entry.get("parse_mode") or 'HTML'
ParseModeOf(entry) == IF entry.parse_mode = "None" THEN "HTML" ELSE entry.parse_mode

\* getcache_command: admin check, usage, lookup, the send by handle (called
\* without special), and in the except clause the reply and delete(key)
GetCacheCommand(k, isAdmin, hasArgs, tx) ==
    /\ cpc = "idle" /\ ops < MaxOps
    /\ ops' = ops + 1
    /\ LET entry == GetFull(cache, k)
           s == SendByFileId(entry.value, entry.title, entry.reply, ParseModeOf(entry),
                             "missing", tx)
           g0 == [GcIdle EXCEPT !.ran = TRUE, !.admin = isAdmin, !.k = k, !.tx = tx]
       IN  IF ~isAdmin
           THEN gc' = g0 /\ UNCHANGED <<cache, disk>>
           ELSE IF ~hasArgs
           THEN gc' = [g0 EXCEPT !.replies = {"usage"}] /\ UNCHANGED <<cache, disk>>
           ELSE IF ~entry.present
           THEN gc' = [g0 EXCEPT !.replies = {"notfound"}] /\ UNCHANGED <<cache, disk>>
           ELSE IF s.raised
           THEN /\ cache' = Pop(cache, k)
                /\ disk' = Saved(disk, cache')
                /\ gc' = [g0 EXCEPT !.had = TRUE, !.entry = entry, !.exc = s.exc,
                                    !.replies = {"invalid", "deleted"}]
           ELSE /\ gc' = [g0 EXCEPT !.had = TRUE, !.entry = entry, !.msg = s.msg,
                                    !.kept = TRUE]
                /\ UNCHANGED <<cache, disk>>
    /\ UNCHANGED <<cpc, cur, preOp, lastPut, expect, restarted>>

(***************************************************************************)
(* _send_quality_selection (handlers/generic_handler.py): the keyboard      *)
(***************************************************************************)
\* the quality options a parser can hand over (VideoQualityOption)
QualityOptions ==
    [is_default : BOOLEAN, resolution : 1..MaxResolution, bit_rate : 1..MaxBitRate]

NoOption == [is_default |-> FALSE, resolution |-> 0, bit_rate |-> 0]

IsDefault(o) == o.is_default

NotDefault(o) == ~o.is_default

\* the options of resolution r, in the order they came in
OfResolution(opts, r) ==
    LET Is(o) == o.resolution = r IN SelectSeq(opts, Is)

\* sorted(other_options, key=lambda x: x.resolution, reverse=True): the sort
\* is stable, so equal resolutions keep the order they came in
RECURSIVE ByResolution(_, _)
ByResolution(opts, r) ==
    IF r = 0 THEN <<>>
    ELSE OfResolution(opts, r) \o ByResolution(opts, r - 1)

\* default_options + sorted(other_options, ...)
SortedOptions(opts) ==
    SelectSeq(opts, IsDefault) \o ByResolution(SelectSeq(opts, NotDefault), MaxResolution)

QualityButton(o) == [music |-> FALSE, opt |-> o]

MusicButton == [music |-> TRUE, opt |-> NoOption]

\* for i in range(0, len(sorted_options), 2): one row of up to two buttons
Rows(sorted) ==
    [i \in 1..((Len(sorted) + 1) \div 2) |->
        IF 2 * i <= Len(sorted)
        THEN <<QualityButton(sorted[2 * i - 1]), QualityButton(sorted[2 * i])>>
        ELSE <<QualityButton(sorted[2 * i - 1])>>]

\* the audio button goes into the last row when that has room, else into a
\* row of its own
WithMusic(keyboard, audio) ==
    IF ~audio THEN keyboard
    ELSE IF keyboard # <<>> /\ Len(keyboard[Len(keyboard)]) < 2
    THEN [keyboard EXCEPT ![Len(keyboard)] = Append(@, MusicButton)]
    ELSE Append(keyboard, <<MusicButton>>)

KbIdle == [built |-> FALSE, opts |-> <<>>, audio |-> FALSE, keyboard |-> <<>>]

\* _send_quality_selection up to InlineKeyboardMarkup(keyboard)
SendQualitySelection(opts, audio) ==
    /\ ~kb.built
    /\ kb' = [built |-> TRUE, opts |-> opts, audio |-> audio,
              keyboard |-> WithMusic(Rows(SortedOptions(opts)), audio)]

(***************************************************************************)
(* Downloader._get_final_url (PublicMethods/m_download.py)                  *)
(***************************************************************************)
\* the URLs of the web; the chase starts at StartUrl
Urls == 0..(NumUrls - 1)

StartUrl == 0

\* the answer of a URL to HEAD: a final resource, a redirect with Location,
\* or a failure (time-out, connection error, a status that raise_for_status
\* turns into an exception)
Responses ==
    {[code |-> "ok", location |-> 0], [code |-> "error", location |-> 0]}
       \cup {[code |-> "redirect", location |-> l] : l \in Urls}

Webs == [Urls -> Responses]

ChaseIdle ==
    [pc |-> "idle", max |-> 0, web |-> [u \in Urls |-> [code |-> "ok", location |-> 0]],
     cur |-> 0, visited |-> {}, probes |-> 0, out |-> "none", ret |-> 0, why |-> "none"]

\* lines 303-304: current_url = url; visited_urls = {url}
GetFinalUrl(web, max) ==
    /\ chase.pc = "idle"
    /\ chase' = [ChaseIdle EXCEPT !.pc = "loop", !.max = max, !.web = web,
                                  !.cur = StartUrl, !.visited = {StartUrl}]

\* one turn of "for i in range(max_redirects)": one HEAD request, then the
\* return, the raise, or the next URL; after the last turn the loop is left
\* and DownloadError is raised (lines 367-370)
GetFinalUrlProbe ==
    /\ chase.pc = "loop"
    /\ LET resp == chase.web[chase.cur]
           c == [chase EXCEPT !.probes = @ + 1]
       IN  chase' =
              IF resp.code = "error"
              THEN [c EXCEPT !.pc = "done", !.out = "DownloadError", !.why = "request"]
              ELSE IF resp.code = "ok"
              THEN [c EXCEPT !.pc = "done", !.out = "url", !.ret = chase.cur]
              ELSE IF resp.location \in chase.visited
              THEN [c EXCEPT !.pc = "done", !.out = "DownloadError", !.why = "loop"]
              ELSE LET n == [c EXCEPT !.visited = @ \cup {resp.location},
                                      !.cur = resp.location]
                   IN  IF n.probes = n.max
                       THEN [n EXCEPT !.pc = "done", !.out = "DownloadError",
                                      !.why = "exceeded"]
                       ELSE n

(***************************************************************************)
(* retry_on_timeout_async (PublicMethods/functool_timeout.py)               *)
(***************************************************************************)
RtIdle ==
    [pc |-> "idle", retries |-> 0, timeout |-> 0, attempt |-> 0, log |-> <<>>,
     out |-> "none", ret |-> 0]

\* a loop that goes round once more than retries
LastAttemptOneLate(attempt, retries) == attempt = retries + 1

\* for attempt in range(1, retries + 1): this attempt is the last one
LastAttempt(attempt, retries) == attempt = retries

\* the wrapper is called
RetryCall(retries, timeout) ==
    /\ rt.pc = "idle"
    /\ rt' = [RtIdle EXCEPT !.pc = "running", !.retries = retries, !.timeout = timeout]

\* one attempt: asyncio.wait_for(func(...), timeout_sec).  The call needs
\* `need` seconds and then returns value or raises (kind); wait_for cancels
\* it at timeout_sec (at need = timeout_sec either can come first: tie).
RetryAttempt(need, kind, value, tie) ==
    /\ rt.pc = "running"
    /\ LET a == rt.attempt + 1
           timedOut == need > rt.timeout \/ (need = rt.timeout /\ tie)
       IN  rt' =
              IF timedOut
              THEN LET r == [rt EXCEPT !.attempt = a,
                                       !.log = Append(@, [o |-> "timeout", d |-> rt.timeout,
                                                          v |-> 0])]
                   IN  IF LastAttempt(a, rt.retries)
                       THEN [r EXCEPT !.pc = "done", !.out = "AsyncTimeoutException"]
                       ELSE r
              ELSE IF kind = "error"
              THEN [rt EXCEPT !.attempt = a, !.pc = "done", !.out = "error",
                              !.log = Append(@, [o |-> "error", d |-> need, v |-> 0])]
              ELSE [rt EXCEPT !.attempt = a, !.pc = "done", !.out = "returned",
                              !.ret = value,
                              !.log = Append(@, [o |-> "result", d |-> need, v |-> value])]

(***************************************************************************)
(* handlers/douyin.py: douyin_command and the module-level record           *)
(***************************************************************************)
\* record = UserParseResult(1): the one object every douyin_command run
\* writes to (0 stands for None, fid for a non-empty fid dict)
DyRecord == [uid |-> 1, input |-> 0, vid |-> 0, success |-> FALSE,
             exception |-> FALSE, fid |-> FALSE]

\* what a run of the handler knows of its own request
DyOwn == [uid |-> 0, input |-> 0, vid |-> 0, success |-> FALSE, hit |-> FALSE]

DyIdle ==
    [record |-> DyRecord, locks |-> [u \in Uids |-> FALSE],
     h |-> [r \in Reqs |-> [pc |-> "new", own |-> DyOwn]], log |-> <<>>]

\* _record_user_parse(record): the entry appended under str(info.uid), next
\* to what the run that made the call did itself
DyRecordOf(rec, own) ==
    [key |-> rec.uid, uid |-> rec.uid, input |-> rec.input, vid |-> rec.vid,
     success |-> rec.success, hit |-> rec.fid, own |-> own]

\* the finally clause: task_manager.release(uid); _record_user_parse(record)
DyFinally(d, r, rec, own) ==
    [d EXCEPT !.record = rec, !.locks = AfterRelease(@, own.uid),
              !.h[r] = [pc |-> "done", own |-> own],
              !.log = Append(@, DyRecordOf(rec, own))]

\* lines 277-303: record.uid = uid, then the rate gate (its answer is the
\* limiter's), the task gate, the reaction and the placeholder
DyEnter(r, u, allowed) ==
    /\ dy.h[r].pc = "new"
    /\ LET own == [DyOwn EXCEPT !.uid = u]
           d == [dy EXCEPT !.record = [@ EXCEPT !.uid = u]]
       IN  dy' = IF ~allowed \/ ~AcquireOk(dy.locks, u)
                 THEN [d EXCEPT !.h[r] = [pc |-> "done", own |-> own]]
                 ELSE [d EXCEPT !.locks = AfterAcquire(@, u),
                                !.h[r] = [pc |-> "admitted", own |-> own]]

\* lines 305-313: a bare command gets the usage text and ends (finally);
\* otherwise record.input_content = url and the executor is awaited
DyBegin(r, hasArgs) ==
    /\ dy.h[r].pc = "admitted"
    /\ LET own == dy.h[r].own
       IN  dy' = IF ~hasArgs THEN DyFinally(dy, r, dy.record, own)
                 ELSE [dy EXCEPT !.record = [@ EXCEPT !.input = r],
                                 !.h[r] = [pc |-> "downloading",
                                           own |-> [own EXCEPT !.input = r]]]

\* lines 313-352: the executor's result (the vid of the request's link), the
\* send by cached handle or by upload, record.success = True; an exception
\* of the download or of the send sets record.exception; then finally
DyDeliver(r, o) ==
    /\ dy.h[r].pc = "downloading"
    /\ LET own == dy.h[r].own
           rec == dy.record
       IN  dy' =
              IF o = "raise"
              THEN DyFinally(dy, r, [rec EXCEPT !.exception = TRUE], own)
              ELSE IF o = "senderr"
              THEN DyFinally(dy, r, [rec EXCEPT !.vid = r, !.exception = TRUE],
                             [own EXCEPT !.vid = r])
              ELSE DyFinally(dy, r,
                             [rec EXCEPT !.vid = r, !.success = TRUE,
                                         !.fid = IF o = "hit" THEN TRUE ELSE @],
                             [own EXCEPT !.vid = r, !.success = TRUE, !.hit = (o = "hit")])

(***************************************************************************)
(* PublicMethods/playwrigth_manager.py: PlaywrightManager                   *)
(* 0 stands for None; a started Playwright or a launched Browser is known   *)
(* by its number                                                            *)
(***************************************************************************)
Callers == 1..NumCallers

NoCaller == [pc |-> "idle", got |-> 0, ctx |-> 0, out |-> "none"]

PwIdle ==
    [playwright |-> 0, browser |-> 0, starts |-> 0, launches |-> 0, contexts |-> 0,
     closes |-> 0, closeRaised |-> FALSE, c |-> [k \in Callers |-> NoCaller]]

\* get_browser has its browser: new_context goes on to browser.new_context,
\* which raises AttributeError on None
PwGot(w, k, browser) ==
    IF browser = 0
    THEN [w EXCEPT !.c[k] = [@ EXCEPT !.pc = "done", !.got = 0, !.out = "AttributeError"]]
    ELSE [w EXCEPT !.c[k] = [@ EXCEPT !.pc = "context", !.got = browser]]

\* new_context -> get_browser -> init, up to the first await that suspends:
\* a browser at hand is returned; without one init() either awaits
\* async_playwright().start() or, _playwright being set, returns _browser
PwNewContext(k) ==
    /\ pw.c[k].pc = "idle"
    /\ pw' = IF pw.browser # 0 THEN PwGot(pw, k, pw.browser)
             ELSE IF pw.playwright = 0
             THEN [pw EXCEPT !.c[k] = [@ EXCEPT !.pc = "starting"]]
             ELSE PwGot(pw, k, pw.browser)

\* init: start() has returned; cls._playwright is bound and launch() awaited
PwStarted(k) ==
    /\ pw.c[k].pc = "starting"
    /\ pw' = [pw EXCEPT !.starts = @ + 1, !.playwright = pw.starts + 1,
                        !.c[k] = [@ EXCEPT !.pc = "launching"]]

\* init: launch() has returned; cls._browser is bound, init and get_browser
\* return it
PwLaunched(k) ==
    /\ pw.c[k].pc = "launching"
    /\ pw' = PwGot([pw EXCEPT !.launches = @ + 1, !.browser = pw.launches + 1],
                   k, pw.launches + 1)

\* browser.new_context(proxy=...) has returned its new context
PwContext(k) ==
    /\ pw.c[k].pc = "context"
    /\ pw' = [pw EXCEPT !.contexts = @ + 1,
                        !.c[k] = [@ EXCEPT !.pc = "done", !.ctx = pw.contexts + 1,
                                           !.out = "context"]]

\* close(): stops Playwright, drops the browser; every exception is caught
PwClose ==
    /\ pw.closes < MaxCloses
    /\ \A k \in Callers : pw.c[k].pc \in {"idle", "done"}
    /\ pw' = [pw EXCEPT !.playwright = 0, !.browser = 0, !.closes = @ + 1]

(***************************************************************************)
(* Parked values of the state that a harness does not exercise              *)
(***************************************************************************)
CacheParked ==
    /\ cache = EmptyCache /\ disk = [f \in FileNames |-> NoFile] /\ cpc = "idle"
    /\ cur = NoOp /\ preOp = [mem |-> EmptyCache, main |-> NoFile]
    /\ lastPut = [k \in Vids |-> NoValue] /\ expect = [mid |-> FALSE, mem |-> EmptyCache]
    /\ restarted = FALSE /\ ops = 0

PipeParked ==
    /\ locks = [u \in Uids |-> FALSE] /\ stats = [u \in Uids |-> <<>>]
    /\ req = [r \in Reqs |-> NewReq] /\ frame = NewReq /\ switch = FALSE

GalParked == gal = GalIdle

DlParked == dl = DlIdle

RecParked == rlog = RecIdle

DispParked == disp = DispIdle

GcParked == gc = GcIdle

KbParked == kb = KbIdle

ChaseParked == chase = ChaseIdle

RtParked == rt = RtIdle

DyParked == dy = DyIdle

PwParked == pw = PwIdle

ToolsParked ==
    DispParked /\ GcParked /\ KbParked /\ ChaseParked /\ RtParked /\ DyParked /\ PwParked

AuxParked == DlParked /\ RecParked /\ ToolsParked

(***************************************************************************)
(* Limiter harness: any stream of allow() calls at any times                *)
(***************************************************************************)
LimAllow(u) == Allow(u) /\ UNCHANGED <<cacheVars, pipeVars, galVars, auxVars, toolVars>>

LimTick == Tick /\ UNCHANGED <<cacheVars, pipeVars, galVars, auxVars, toolVars>>

InitLimiter == LimInit /\ CacheParked /\ PipeParked /\ GalParked /\ AuxParked

NextLimiter == (\E u \in Uids : LimAllow(u)) \/ LimTick

SpecLimiter == InitLimiter /\ [][NextLimiter]_vars

\* the calls of uid u, as indices of the log
CallsOf(u) == {i \in 1..Len(calls) : calls[i].uid = u}

\* the call of the same uid that precedes call k (0 when there is none)
PrevCall(k) ==
    LET before == {i \in CallsOf(calls[k].uid) : i < k}
    IN  IF before = {} THEN 0 ELSE CHOOSE i \in before : \A j \in before : j <= i

\* calls i..j of one uid form a stream in which every call comes less than
\* min_interval after the call before it
DenseStream(i, j) ==
    /\ i < j /\ calls[i].uid = calls[j].uid
    /\ \A k \in CallsOf(calls[i].uid) :
          (i < k /\ k <= j) => calls[k].t - calls[PrevCall(k)].t < MinInterval

\* C3 as stated: a stream of calls of one uid, each less than min_interval
\* after the previous call, has at most one admitted call.
C3_DenseStreamAdmitsOnce ==
    \A i, j \in 1..Len(calls) :
        DenseStream(i, j) => ~(calls[i].ok /\ calls[j].ok)

\* C3 amended: two admitted calls of one uid are never less than
\* min_interval apart (a call is rejected exactly when it comes less than
\* min_interval after the last ADMITTED call of that uid).
C3_AdmittedCallsApart ==
    \A i, j \in 1..Len(calls) :
        (i < j /\ calls[i].uid = calls[j].uid /\ calls[i].ok /\ calls[j].ok)
            => calls[j].t - calls[i].t >= MinInterval

\* an admitted call, a rejected call after it, and a later admitted call
C3_Witness ==
    \E i, j, k \in 1..Len(calls) :
        /\ i < j /\ j < k
        /\ calls[i].uid = calls[j].uid /\ calls[j].uid = calls[k].uid
        /\ calls[i].ok /\ ~calls[j].ok /\ calls[k].ok

\* C32: allow(uid) changes the limiter only when it admits: a rejected call
\* leaves _last_sent as it was, an admitted call sets the uid's entry to the
\* current time, and no call touches the entry of another uid.
C32_AllowFrame ==
    [][Len(calls') = Len(calls) + 1 =>
          LET c == calls'[Len(calls')]
          IN  /\ c.t = now
              /\ ~c.ok => last_sent' = last_sent
              /\ c.ok => last_sent'[c.uid] = now
              /\ \A v \in Uids : v # c.uid => last_sent'[v] = last_sent[v]]_vars

\* a uid turned away some time after its admitted call, its entry still at
\* that call's time, while another uid is admitted at the time of the
\* rejection
C32_Witness ==
    \E i, j, k \in 1..Len(calls) :
        /\ i < j /\ calls[i].uid = calls[j].uid
        /\ calls[i].ok /\ ~calls[j].ok /\ calls[j].t > calls[i].t
        /\ last_sent[calls[i].uid] = calls[i].t
        /\ calls[k].uid # calls[i].uid /\ calls[k].ok /\ calls[k].t = calls[j].t

(***************************************************************************)
(* Cache harness specification                                              *)
(***************************************************************************)
HarnessPut(k, v, title, pm) ==
    CachePut(k, v, title, pm) /\ UNCHANGED <<limVars, pipeVars, galVars, auxVars, toolVars>>

HarnessDelete(k) == CacheDelete(k) /\ UNCHANGED <<limVars, pipeVars, galVars, auxVars, toolVars>>

HarnessSaveSync == SaveSync /\ UNCHANGED <<limVars, pipeVars, galVars, auxVars, toolVars>>

HarnessSaveReplace == SaveReplace /\ UNCHANGED <<limVars, pipeVars, galVars, auxVars, toolVars>>

HarnessKillRestart == KillRestart /\ UNCHANGED <<limVars, pipeVars, galVars, auxVars, toolVars>>

LimParked == now = StartTime /\ last_sent = [u \in Uids |-> 0] /\ calls = <<>>

InitCache == CacheInit /\ LimParked /\ PipeParked /\ GalParked /\ AuxParked

NextCache ==
    \/ \E k \in Vids, v \in PutValues, title \in {NoText, <<"T2">>}, pm \in {"None", "HTML"} :
          HarnessPut(k, v, title, pm)
    \/ \E k \in Vids : HarnessDelete(k)
    \/ HarnessSaveSync
    \/ HarnessSaveReplace
    \/ HarnessKillRestart

SpecCache == InitCache /\ [][NextCache]_vars

C6_KillDuringSaveKeepsPrevious ==
    /\ disk["main"].exists => disk["main"].complete
    /\ cpc # "idle" => disk["main"] = preOp.main
    /\ (restarted /\ expect.mid) => \A k \in Vids : Get(cache, k) = Get(expect.mem, k)

\* a kill between the temp write and the rename of a put that changes a key
C6_Witness ==
    /\ restarted /\ expect.mid /\ cur.op = "put"
    /\ Get(cache, cur.k) # cur.v
    /\ disk["tmp"].exists

(***************************************************************************)
(* Cache harness with its environment: the music handler, and damage to     *)
(* the cache file                                                           *)
(***************************************************************************)
HarnessCorruptMain == CorruptMain /\ UNCHANGED <<limVars, pipeVars, galVars, auxVars, toolVars>>

HarnessMusic(k, byFid, upl) ==
    MusicSendWithCache(k, byFid, upl) /\ UNCHANGED <<limVars, pipeVars, galVars, auxVars, toolVars>>

NextCacheEnv ==
    \/ \E k \in Vids, v \in PutValues, title \in {NoText, <<"T2">>}, pm \in {"None", "HTML"} :
          HarnessPut(k, v, title, pm)
    \/ \E k \in Vids : HarnessDelete(k)
    \/ HarnessSaveSync
    \/ HarnessSaveReplace
    \/ HarnessKillRestart
    \/ HarnessCorruptMain
    \/ \E k \in Vids, byFid \in {"ok", "stale", "error"}, upl \in {"fid", "nofid", "raise"} :
          HarnessMusic(k, byFid, upl)

SpecCacheEnv == InitCache /\ [][NextCacheEnv]_vars

\* C17: when the process starts with a main cache file that does not load,
\* the cache is what the backup holds, i.e. the content of the main file
\* before the last save (here: a last save that returned and changed the
\* file, on a main file that loaded).
C17_LoadFallsBackToBackup ==
    (/\ restarted /\ ~expect.mid
     /\ disk["main"].exists /\ ~disk["main"].complete
     /\ preOp.main.exists /\ preOp.main.complete
     /\ preOp.main.data # disk["main"].data)
        => cache = Load(preOp.main, EmptyCache)

\* C20: every key present in the cache maps to a non-empty handle,
\* non-empty handle list or URL.
C20_PresentKeysHaveValues ==
    \A k \in Vids : cache[k].present => Truthy(cache[k].value)

(***************************************************************************)
(* put() and delete() as whole calls on a cache of several keys             *)
(***************************************************************************)
PutKeys == 1..NumKeys

\* the arguments of the last put(): NoText / "None" stand for an omitted one
NoPutCall == [op |-> "none", k |-> 1, v |-> NoValue, title |-> NoText,
              reply |-> NoText, parse_mode |-> "None"]

PutInit ==
    /\ cache = [k \in PutKeys |-> Absent]
    /\ disk = [f \in FileNames |-> NoFile] /\ cpc = "idle"
    /\ cur = NoPutCall /\ preOp = [mem |-> EmptyCache, main |-> NoFile]
    /\ lastPut = [k \in Vids |-> NoValue] /\ expect = [mid |-> FALSE, mem |-> EmptyCache]
    /\ restarted = FALSE /\ ops = 0

\* put(key, file_id, title=, reply=, parse_mode=), save() included
PutCall(k, v, title, reply, pm) ==
    /\ ops < MaxOps
    /\ cache' = Put(cache, k, v, title, reply, pm)
    /\ disk' = Saved(disk, cache')
    /\ cur' = [op |-> "put", k |-> k, v |-> v, title |-> title, reply |-> reply,
               parse_mode |-> pm]
    /\ ops' = ops + 1
    /\ UNCHANGED <<cpc, preOp, lastPut, expect, restarted>>

\* delete(key), save() included
DeleteCall(k) ==
    /\ ops < MaxOps /\ cache[k].present
    /\ cache' = Pop(cache, k)
    /\ disk' = Saved(disk, cache')
    /\ cur' = [NoPutCall EXCEPT !.op = "delete", !.k = k]
    /\ ops' = ops + 1
    /\ UNCHANGED <<cpc, preOp, lastPut, expect, restarted>>

HarnessPutCall(k, v, title, reply, pm) ==
    PutCall(k, v, title, reply, pm)
       /\ UNCHANGED <<limVars, pipeVars, galVars, auxVars, toolVars>>

HarnessDeleteCall(k) ==
    DeleteCall(k) /\ UNCHANGED <<limVars, pipeVars, galVars, auxVars, toolVars>>

InitPut == PutInit /\ LimParked /\ PipeParked /\ GalParked /\ AuxParked

NextPut ==
    \/ \E k \in PutKeys, v \in PutValues, title \in {NoText, <<"T2">>},
          reply \in {NoText, <<"R">>}, pm \in {"None", "HTML"} :
          HarnessPutCall(k, v, title, reply, pm)
    \/ \E k \in PutKeys : HarnessDeleteCall(k)

SpecPut == InitPut /\ [][NextPut]_vars

\* the last call was a put() with no title, no reply and no parse_mode
BarePut(c) ==
    c.op = "put" /\ c.title = NoText /\ c.reply = NoText /\ c.parse_mode = "None"

\* C36: put(k, v) without reply, parse_mode or title on an existing key
\* replaces the value and keeps the entry's reply, parse_mode and title; on a
\* new key it makes an entry with empty title, null reply and null
\* parse_mode; no other key's entry changes.
C36_PutFrame ==
    [][(ops' = ops + 1 /\ BarePut(cur')) =>
          LET k == cur'.k IN
          /\ cache'[k].present /\ cache'[k].value = cur'.v
          /\ IF cache[k].present
             THEN /\ cache'[k].reply = cache[k].reply
                  /\ cache'[k].parse_mode = cache[k].parse_mode
                  /\ cache'[k].title = cache[k].title
             ELSE /\ cache'[k].title = <<>>
                  /\ cache'[k].reply = NoText
                  /\ cache'[k].parse_mode = "None"
          /\ \A j \in PutKeys : j # k => cache'[j] = cache[j]
          /\ disk'["main"].complete /\ disk'["main"].data = Dump(cache')]_vars

\* a bare put has replaced the value of an entry that carries a reply, a
\* parse_mode and a title, next to another key's entry
C36_Witness ==
    /\ BarePut(cur) /\ cache[cur.k].value = cur.v
    /\ cache[cur.k].reply = <<"R">> /\ cache[cur.k].parse_mode = "HTML"
    /\ cache[cur.k].title = <<"T2">>
    /\ \E j \in PutKeys : j # cur.k /\ cache[j].present

(***************************************************************************)
(* Gallery harness specification                                            *)
(***************************************************************************)
HarnessUpload(K, m, title, audio) ==
    GalUpload(K, m, title, audio) /\ UNCHANGED <<limVars, cacheVars, pipeVars, auxVars, toolVars>>

HarnessSendGroup == GalSendGroup /\ UNCHANGED <<limVars, cacheVars, pipeVars, auxVars, toolVars>>

HarnessSendFails == GalSendFails /\ UNCHANGED <<limVars, cacheVars, pipeVars, auxVars, toolVars>>

HarnessReplay == GalReplay /\ UNCHANGED <<limVars, cacheVars, pipeVars, auxVars, toolVars>>

InitGallery == GalInit /\ LimParked /\ CacheParked /\ PipeParked /\ AuxParked

NextGallery ==
    \/ \E K \in 1..MaxItems, m \in Patterns, title \in {NoText, <<"T">>}, audio \in BOOLEAN :
          HarnessUpload(K, m, title, audio)
    \/ HarnessSendGroup
    \/ HarnessSendFails
    \/ HarnessReplay

SpecGallery == InitGallery /\ [][NextGallery]_vars

RECURSIVE Flatten(_)
Flatten(groups) == IF groups = <<>> THEN <<>> ELSE Head(groups) \o Flatten(Tail(groups))

HasCaption(item) == item.caption # NoText /\ item.caption # <<>>

\* every slice of the running delivery has been sent
GalDelivered == gal.pc \in {"fresh", "replay"} /\ Len(gal.groups) = NumChunks(gal.media)

\* C10: a gallery of K items is delivered, fresh or from cached handles, by
\* ceil(K/10) send_media_group calls of at most 10 items each, whose
\* concatenation is the item sequence in resolver order with each item's
\* type, and only the first item of the first group carries the caption.
C10_GalleryGroups ==
    GalDelivered =>
        /\ Len(gal.groups) * GroupSize >= Len(gal.items)
        /\ (Len(gal.groups) - 1) * GroupSize < Len(gal.items)
        /\ \A g \in 1..Len(gal.groups) : Len(gal.groups[g]) <= GroupSize
        /\ [i \in 1..Len(Flatten(gal.groups)) |-> Flatten(gal.groups)[i].type] = gal.items
        /\ \A g \in 1..Len(gal.groups) : \A i \in 1..Len(gal.groups[g]) :
              HasCaption(gal.groups[g][i]) => (g = 1 /\ i = 1)

\* C31: the value cached for a delivered gallery is the list of the
\* messages' handles in delivery order, each prefixed VIDEO or IMAGE by the
\* item's type; the replay of that list sends, in the same order, a video
\* for every VIDEO entry and a photo for every IMAGE entry, with the handle
\* the upload got.
C31_GalleryHandleRoundTrip ==
    /\ (gal.pc = "fresh" /\ GalDelivered) =>
          LET c == PrefixAll(gal.msgs)
          IN  /\ Len(c) = Len(gal.items) /\ Len(gal.msgs) = Len(gal.items)
              /\ \A i \in 1..Len(c) :
                    /\ gal.msgs[i].video = (gal.items[i] = "video")
                    /\ c[i] = (IF gal.items[i] = "video" THEN <<"VIDEO">> ELSE <<"IMAGE">>)
                                 \o gal.msgs[i].fid
    /\ gal.pc = "replay" =>
          /\ Len(gal.media) = Len(gal.items)
          /\ \A i \in 1..Len(gal.media) :
                /\ gal.media[i].type = gal.items[i]
                /\ gal.media[i].media = <<"fid", i>>
          /\ \A i \in 1..Len(gal.msgs) :
                /\ gal.msgs[i].fid = <<"fid", i>>
                /\ gal.msgs[i].video = (gal.items[i] = "video")

\* a mixed gallery of more than one slice, replayed to the end from the
\* cached list
C31_Witness ==
    /\ gal.pc = "replay" /\ Len(gal.items) > GroupSize
    /\ Len(gal.msgs) = Len(gal.items)
    /\ \E i, j \in 1..Len(gal.items) : gal.items[i] = "video" /\ gal.items[j] = "photo"

(***************************************************************************)
(* Download harness specification                                           *)
(***************************************************************************)
OthersParked == LimParked /\ CacheParked /\ PipeParked /\ GalParked

BaseParked == OthersParked /\ DlParked /\ RecParked

HarnessDlStart(S, N, ranges, probe, pooled) ==
    DlStart(S, N, ranges, probe, pooled) /\ UNCHANGED <<limVars, cacheVars, pipeVars, galVars, recVars, toolVars>>

HarnessDlWorker(i, o) ==
    DlWorker(i, o) /\ UNCHANGED <<limVars, cacheVars, pipeVars, galVars, recVars, toolVars>>

HarnessDlJoin(ioerr) ==
    DlJoin(ioerr) /\ UNCHANGED <<limVars, cacheVars, pipeVars, galVars, recVars, toolVars>>

HarnessDlJoinTimeout ==
    DlJoinTimeout /\ UNCHANGED <<limVars, cacheVars, pipeVars, galVars, recVars, toolVars>>

HarnessDlLateWorker(i, o) ==
    DlLateWorker(i, o) /\ UNCHANGED <<limVars, cacheVars, pipeVars, galVars, recVars, toolVars>>

HarnessDlSingle(o) ==
    DlSingle(o) /\ UNCHANGED <<limVars, cacheVars, pipeVars, galVars, recVars, toolVars>>

InitDownload == dl = DlIdle /\ RecParked /\ OthersParked /\ ToolsParked

NextDownload ==
    \/ \E S \in 1..MaxSize, N \in 1..MaxThreads, ranges \in BOOLEAN,
          probe \in {"ok", "nolength", "fail"}, pooled \in BOOLEAN :
          HarnessDlStart(S, N, ranges, probe, pooled)
    \/ \E i \in 0..(MaxThreads - 1), o \in {"ok", "short", "fail", "broke"} :
          HarnessDlWorker(i, o)
    \/ \E i \in 0..(MaxThreads - 1), o \in {"ok", "fail"} : HarnessDlLateWorker(i, o)
    \/ \E ioerr \in BOOLEAN : HarnessDlJoin(ioerr)
    \/ HarnessDlJoinTimeout
    \/ \E o \in {"ok", "status", "conn"} : HarnessDlSingle(o)

SpecDownload == InitDownload /\ [][NextDownload]_vars

\* C11: whenever download() reports success through the segmented path,
\* the file at path is byte-identical to what a single-stream GET delivers:
\* the bytes 0..S-1 in order, each exactly once.
C11_SegmentedEqualsSingleStream ==
    (dl.pc = "done" /\ dl.out = "path" /\ dl.via = "segmented") => dl.file = Content(dl.size)

\* C12: download() returns path only when the complete file is at path, and
\* a call that does not return path fails with DownloadError.
C12_PathOnlyWithCompleteFile ==
    dl.pc = "done" =>
        /\ dl.out = "path" => (dl.exists /\ dl.file = Content(dl.size))
        /\ dl.out # "path" => dl.out = "DownloadError"

\* the workers that download() has started (segment_threads)
Workers == {i \in 0..(MaxThreads - 1) : dl.parts[i].st # "none"}

\* the bytes of the part files of the workers with a lower start byte
RECURSIVE BytesBefore(_, _, _)
BytesBefore(parts, segs, i) ==
    IF \A j \in segs : j >= i THEN 0
    ELSE LET j == CHOOSE x \in segs : x < i /\ \A y \in segs : y < i => y <= x
         IN  Len(parts[j].data) + BytesBefore(parts, segs, j)

\* C28: a worker that reported failure, or a worker still alive at the
\* deadline, makes download() remove all part files, merge nothing and go on
\* with the single download; a merge happens only when every worker reported
\* success, and it holds the part files one after the other by start byte.
C28_FallbackOrOrderedMerge ==
    [][(dl.pc = "segments" /\ dl'.pc # "segments") =>
          /\ ((\E i \in Workers : dl.parts[i].st \in {"failed", "run"}) =>
                 /\ dl'.pc = "single" /\ dl'.fallback # "none"
                 /\ \A i \in 0..(MaxThreads - 1) : dl'.parts[i] = NoPart
                 /\ ~dl'.exists /\ dl'.file = <<>> /\ dl'.via = "none")
          /\ (dl'.via = "segmented" =>
                 /\ \A i \in Workers : dl.parts[i].st = "ok"
                 /\ \A i \in Workers :
                       SubSeq(dl'.file, BytesBefore(dl.parts, Workers, i) + 1,
                              BytesBefore(dl.parts, Workers, i) + Len(dl.parts[i].data))
                          = dl.parts[i].data
                 /\ Len(dl'.file) = BytesBefore(dl.parts, Workers, MaxThreads))]_vars

\* a download that fell back after a worker had reported failure and then
\* fetched the file in one stream
C28_Witness ==
    /\ dl.fallback = "failed" /\ dl.pc = "done" /\ dl.via = "single"
    /\ dl.exists /\ dl.file = Content(dl.size)

\* C37: at every moment of a segmented download the shared downloaded
\* counter is at most the total size of the file, also after a segment has
\* failed part-way and been retried.
C37_CounterWithinTotal == dl.pc = "segments" => dl.ctr <= dl.size

\* C38: when download() has returned path, no worker of the call is still
\* running, no pooled session was closed under a worker that was using it,
\* and no part file exists or can still be created.
C38_NothingLeftRunning ==
    (dl.pc = "done" /\ dl.out = "path") =>
       /\ dl.alive = {}
       /\ ~dl.closedInUse
       /\ dl.stray = {}
       /\ \A i \in 0..(MaxThreads - 1) : dl.parts[i] = NoPart

\* C29: the byte ranges of the workers are pairwise disjoint, contiguous and
\* ascending, start at 0, end at total - 1 and cover every byte exactly once;
\* the first N - 1 ranges have total div N bytes, the last one the rest.
C29_RangesPartitionTheFile ==
    dl.pc = "segments" =>
       LET S == dl.size
           N == dl.threads
           lo(i) == StartByte(i, S, N)
           hi(i) == EndByte(i, S, N)
       IN  /\ Workers # {} /\ Workers \subseteq 0..(N - 1)
           /\ \A b \in 0..(S - 1) : Cardinality({i \in Workers : lo(i) <= b /\ b <= hi(i)}) = 1
           /\ \A i \in Workers : 0 <= lo(i) /\ lo(i) <= hi(i) /\ hi(i) <= S - 1
           /\ \A i, j \in Workers : i < j => hi(i) < lo(j)
           /\ \A i \in Workers : lo(i) = 0 \/ \E j \in Workers : hi(j) + 1 = lo(i)
           /\ \E i \in Workers : lo(i) = 0
           /\ \E i \in Workers : hi(i) = S - 1
           /\ \A i \in 0..(N - 2) : hi(i) - lo(i) + 1 = S \div N
           /\ hi(N - 1) - lo(N - 1) + 1 = S - (N - 1) * (S \div N)

\* a file that does not divide evenly among its workers, all of them started
C29_Witness ==
    /\ dl.pc = "segments" /\ dl.threads >= 2 /\ dl.size % dl.threads # 0
    /\ Cardinality(Workers) = dl.threads
    /\ \A i \in Workers : dl.parts[i].st = "run"

(***************************************************************************)
(* Recorder harness specification                                           *)
(***************************************************************************)
HarnessRecWrite(u, fail) ==
    RecWrite(u, fail) /\ UNCHANGED <<limVars, cacheVars, pipeVars, galVars, dlVars, toolVars>>

HarnessRecBackup(fail) ==
    RecBackup(fail) /\ UNCHANGED <<limVars, cacheVars, pipeVars, galVars, dlVars, toolVars>>

HarnessRecReplace(fail) ==
    RecReplace(fail) /\ UNCHANGED <<limVars, cacheVars, pipeVars, galVars, dlVars, toolVars>>

HarnessRecKill == RecKill /\ UNCHANGED <<limVars, cacheVars, pipeVars, galVars, dlVars, toolVars>>

InitRecorder == rlog = RecIdle /\ DlParked /\ OthersParked /\ ToolsParked

NextRecorder ==
    \/ \E u \in Uids, fail \in BOOLEAN : HarnessRecWrite(u, fail)
    \/ \E fail \in BOOLEAN : HarnessRecBackup(fail)
    \/ \E fail \in BOOLEAN : HarnessRecReplace(fail)
    \/ HarnessRecKill

SpecRecorder == InitRecorder /\ [][NextRecorder]_vars

\* C18: after a write that failed at some step, or during which the process
\* died, the records of the earlier successful writes are still what the
\* next write loads (and so appends to).
C18_EarlierRecordsKept ==
    rlog.pc = "idle" => rlog.written \subseteq IdsOf(RecLoad(rlog.files))

(***************************************************************************)
(* Routing harness specification                                            *)
(***************************************************************************)
HarnessArrive(m, u, via, p, dt) ==
    DispArrive(m, u, via, p, dt)
        /\ UNCHANGED <<limVars, cacheVars, pipeVars, galVars, auxVars, dy, pw, gc, kb, chase, rt>>

HarnessFinish(m, end, leak) ==
    DispFinish(m, end, leak) /\ UNCHANGED <<limVars, cacheVars, pipeVars, galVars, auxVars, dy, pw, gc, kb, chase, rt>>

InitDispatch ==
    /\ \E B \in SUBSET Uids : disp = [DispIdle EXCEPT !.black = B]
    /\ BaseParked /\ GcParked /\ KbParked /\ ChaseParked /\ RtParked
    /\ DyParked /\ PwParked

NextDispatch ==
    \/ \E m \in 1..NumMsgs, u \in Uids, via \in {"text", "command"}, p \in Platforms,
          dt \in {0, MinInterval} : HarnessArrive(m, u, via, p, dt)
    \/ \E m \in 1..NumMsgs, end \in {"success", "failed", "raised"}, leak \in BOOLEAN :
          HarnessFinish(m, end, leak)

SpecDispatch == InitDispatch /\ [][NextDispatch]_vars

\* C21: for a blacklisted uid every message that would start a resolution
\* (URL text or platform command) is ignored: no reply, no limiter or lock
\* consulted, no run, no usage record, no admin status line.
C21_BlacklistedIgnored ==
    \A m \in 1..NumMsgs :
        (disp.msg[m].pc # "new" /\ disp.msg[m].uid \in disp.black) =>
            /\ disp.msg[m].pc = "ignored" /\ disp.msg[m].gate = "none"
            /\ ~disp.msg[m].replied /\ ~disp.msg[m].recorded /\ disp.msg[m].glyph = "none"

\* C22: the dispatcher deletes the user's message and reports the success
\* glyph only after a successful outcome; a handler that raised, was
\* rate-limited, was rejected as busy or failed keeps the message and gets
\* the failure glyph.
C22_DeleteAndGlyphOnlyOnSuccess ==
    \A m \in 1..NumMsgs :
        (disp.msg[m].pc = "done" /\ disp.msg[m].via = "text") =>
            /\ disp.msg[m].deleted => disp.msg[m].end = "success"
            /\ disp.msg[m].glyph = "ok" => disp.msg[m].end = "success"
            /\ disp.msg[m].end # "success" => disp.msg[m].glyph = "fail"

\* C23: at most one task per uid is in flight in the whole process,
\* whichever entry points the requests of the uid go through.
C23_OneTaskPerUidProcessWide ==
    \A m1, m2 \in 1..NumMsgs :
        (m1 # m2 /\ disp.msg[m1].pc = "running" /\ disp.msg[m2].pc = "running")
            => disp.msg[m1].uid # disp.msg[m2].uid

(***************************************************************************)
(* /getcache harness specification                                          *)
(***************************************************************************)
HarnessGetCache(k, isAdmin, hasArgs, tx) ==
    /\ GetCacheCommand(k, isAdmin, hasArgs, tx)
    /\ UNCHANGED <<limVars, pipeVars, galVars, auxVars, dy, pw, disp, kb, chase, rt>>

NextGetCache ==
    \/ \E k \in Vids, v \in PutValues, title \in {NoText, <<"T2">>}, pm \in {"None", "HTML"} :
          HarnessPut(k, v, title, pm)
    \/ \E k \in Vids : HarnessDelete(k)
    \/ HarnessSaveSync
    \/ HarnessSaveReplace
    \/ \E k \in Vids, isAdmin \in BOOLEAN, hasArgs \in BOOLEAN, tx \in {"ok", "reject"} :
          HarnessGetCache(k, isAdmin, hasArgs, tx)

SpecGetCache == InitCache /\ [][NextGetCache]_vars

\* C24: /getcache <vid> on an existing entry sends the cached artifact again
\* with the caption, keyboard and parse_mode saved in the entry and leaves the
\* entry in the cache when Telegram accepts the send; the entry is removed
\* only when Telegram rejects the handle.
C24_GetCacheResendsAndKeeps ==
    (gc.ran /\ gc.admin /\ gc.had) =>
       /\ gc.tx = "ok" =>
             /\ gc.msg.kind # "none" /\ gc.msg.caption = gc.entry.title
             /\ gc.msg.kind = "document" =>
                   /\ gc.msg.reply = gc.entry.reply
                   /\ gc.msg.parse_mode = ParseModeOf(gc.entry)
             /\ gc.kept
       /\ ~gc.kept => gc.tx = "reject"

(***************************************************************************)
(* Quality keyboard harness specification                                   *)
(***************************************************************************)
HarnessSendQualitySelection(opts, audio) ==
    /\ SendQualitySelection(opts, audio)
    /\ UNCHANGED <<limVars, cacheVars, pipeVars, galVars, auxVars, dy, pw, disp, gc, chase, rt>>

InitKeyboard == BaseParked /\ ToolsParked

NextKeyboard ==
    \E n \in 1..MaxOptions, audio \in BOOLEAN : \E opts \in [1..n -> QualityOptions] :
       HarnessSendQualitySelection(opts, audio)

SpecKeyboard == InitKeyboard /\ [][NextKeyboard]_vars

\* the buttons of a keyboard, row after row
RECURSIVE Buttons(_)
Buttons(keyboard) ==
    IF keyboard = <<>> THEN <<>> ELSE Head(keyboard) \o Buttons(Tail(keyboard))

\* C25: in the keyboard the default options come first, then the others by
\* resolution descending, equal resolutions by bit rate descending; the
\* buttons fill rows of two in that order, and the music button, if any,
\* comes after all quality buttons.
C25_KeyboardOrder ==
    kb.built =>
       LET b == Buttons(kb.keyboard)
           nq == Len(kb.opts)
       IN  /\ Len(b) = nq + (IF kb.audio THEN 1 ELSE 0)
           /\ \A i \in 1..nq : ~b[i].music
           /\ kb.audio => b[Len(b)].music
           /\ \A i \in 1..Len(kb.keyboard) :
                 Len(kb.keyboard[i]) = (IF 2 * i <= Len(b) THEN 2 ELSE 1)
           /\ \A i, j \in 1..nq :
                 i < j =>
                    \/ b[i].opt.is_default
                    \/ /\ ~b[j].opt.is_default
                       /\ \/ b[i].opt.resolution > b[j].opt.resolution
                          \/ /\ b[i].opt.resolution = b[j].opt.resolution
                             /\ b[i].opt.bit_rate >= b[j].opt.bit_rate

(***************************************************************************)
(* Redirect chase harness specification                                     *)
(***************************************************************************)
HarnessGetFinalUrl(web, max) ==
    /\ GetFinalUrl(web, max)
    /\ UNCHANGED <<limVars, cacheVars, pipeVars, galVars, auxVars, dy, pw, disp, gc, kb, rt>>

HarnessGetFinalUrlProbe ==
    /\ GetFinalUrlProbe
    /\ UNCHANGED <<limVars, cacheVars, pipeVars, galVars, auxVars, dy, pw, disp, gc, kb, rt>>

InitChase == BaseParked /\ ToolsParked

NextChase ==
    \/ \E web \in Webs, max \in 1..MaxRedirects : HarnessGetFinalUrl(web, max)
    \/ HarnessGetFinalUrlProbe

SpecChase == InitChase /\ [][NextChase]_vars

\* the chain that starts at URL u: how it ends, after how many redirects,
\* and at which URL
RECURSIVE Chain(_, _, _, _)
Chain(web, u, seen, k) ==
    IF web[u].code = "ok" THEN [end |-> "final", k |-> k, url |-> u]
    ELSE IF web[u].code = "error" THEN [end |-> "error", k |-> k, url |-> u]
    ELSE IF web[u].location \in seen
    THEN [end |-> "loop", k |-> k + 1, url |-> web[u].location]
    ELSE Chain(web, web[u].location, seen \cup {web[u].location}, k + 1)

\* C27: the chase ends after at most max_redirects + 1 probes; a chain of
\* k <= max_redirects redirects that ends in a final response returns that
\* URL; a Location seen before raises the redirect-loop DownloadError; a
\* chain longer than max_redirects raises DownloadError.
C27_ChaseFollowsUpToMax ==
    /\ chase.probes <= chase.max + 1
    /\ chase.pc = "loop" => chase.probes < chase.max
    /\ chase.pc = "done" =>
          LET c == Chain(chase.web, StartUrl, {StartUrl}, 0)
          IN  /\ (c.end = "final" /\ c.k <= chase.max) =>
                    (chase.out = "url" /\ chase.ret = c.url)
              /\ (c.end = "loop" /\ c.k <= chase.max) =>
                    (chase.out = "DownloadError" /\ chase.why = "loop")
              /\ c.k > chase.max => chase.out = "DownloadError"

(***************************************************************************)
(* douyin handler harness specification                                     *)
(***************************************************************************)
HarnessDyEnter(r, u, allowed) ==
    /\ DyEnter(r, u, allowed)
    /\ UNCHANGED <<limVars, cacheVars, pipeVars, galVars, auxVars, disp, gc, kb, chase, rt, pw>>

HarnessDyBegin(r, hasArgs) ==
    /\ DyBegin(r, hasArgs)
    /\ UNCHANGED <<limVars, cacheVars, pipeVars, galVars, auxVars, disp, gc, kb, chase, rt, pw>>

HarnessDyDeliver(r, o) ==
    /\ DyDeliver(r, o)
    /\ UNCHANGED <<limVars, cacheVars, pipeVars, galVars, auxVars, disp, gc, kb, chase, rt, pw>>

InitDouyin == BaseParked /\ ToolsParked

NextDouyin ==
    \/ \E r \in Reqs, u \in Uids, allowed \in BOOLEAN : HarnessDyEnter(r, u, allowed)
    \/ \E r \in Reqs, hasArgs \in BOOLEAN : HarnessDyBegin(r, hasArgs)
    \/ \E r \in Reqs, o \in {"ok", "hit", "raise", "senderr"} : HarnessDyDeliver(r, o)

SpecDouyin == InitDouyin /\ [][NextDouyin]_vars

\* C39: every appended record carries the uid, input, vid, outcome and
\* cache-hit flag of the one request that produced it, and is stored under
\* that uid's key.
C39_RecordIsOfItsRequest ==
    \A i \in 1..Len(dy.log) :
       LET e == dy.log[i]
       IN  /\ e.key = e.own.uid /\ e.uid = e.own.uid
           /\ e.input = e.own.input /\ e.vid = e.own.vid
           /\ e.success = e.own.success /\ e.hit = e.own.hit

(***************************************************************************)
(* PlaywrightManager harness specification                                  *)
(***************************************************************************)
HarnessPwNewContext(k) ==
    /\ PwNewContext(k)
    /\ UNCHANGED <<limVars, cacheVars, pipeVars, galVars, auxVars, disp, gc, kb, chase, rt, dy>>

HarnessPwStarted(k) ==
    /\ PwStarted(k)
    /\ UNCHANGED <<limVars, cacheVars, pipeVars, galVars, auxVars, disp, gc, kb, chase, rt, dy>>

HarnessPwLaunched(k) ==
    /\ PwLaunched(k)
    /\ UNCHANGED <<limVars, cacheVars, pipeVars, galVars, auxVars, disp, gc, kb, chase, rt, dy>>

HarnessPwContext(k) ==
    /\ PwContext(k)
    /\ UNCHANGED <<limVars, cacheVars, pipeVars, galVars, auxVars, disp, gc, kb, chase, rt, dy>>

HarnessPwClose ==
    /\ PwClose
    /\ UNCHANGED <<limVars, cacheVars, pipeVars, galVars, auxVars, disp, gc, kb, chase, rt, dy>>

InitPlaywright == BaseParked /\ ToolsParked

NextPlaywright ==
    \/ \E k \in Callers : HarnessPwNewContext(k)
    \/ \E k \in Callers : HarnessPwStarted(k)
    \/ \E k \in Callers : HarnessPwLaunched(k)
    \/ \E k \in Callers : HarnessPwContext(k)
    \/ HarnessPwClose

SpecPlaywright == InitPlaywright /\ [][NextPlaywright]_vars

\* C33: as long as close() has not been called the browser is launched at
\* most once, every caller that has its browser has that launched one (never
\* None), and every finished call has a context of its own; close() never
\* raises.
C33_OneBrowserForAll ==
    /\ ~pw.closeRaised
    /\ pw.closes = 0 =>
          /\ pw.launches <= 1
          /\ \A k \in Callers :
                /\ pw.c[k].pc \in {"context", "done"} => pw.c[k].got = 1
                /\ pw.c[k].pc = "done" => (pw.c[k].out = "context" /\ pw.c[k].ctx # 0)
          /\ \A j, k \in Callers :
                (j # k /\ pw.c[j].pc = "done" /\ pw.c[k].pc = "done") =>
                   pw.c[j].ctx # pw.c[k].ctx

(***************************************************************************)
(* Retry wrapper harness specification                                      *)
(***************************************************************************)
HarnessRetryCall(retries, timeout) ==
    /\ RetryCall(retries, timeout)
    /\ UNCHANGED <<limVars, cacheVars, pipeVars, galVars, auxVars, dy, pw, disp, gc, kb, chase>>

HarnessRetryAttempt(need, kind, value, tie) ==
    /\ RetryAttempt(need, kind, value, tie)
    /\ UNCHANGED <<limVars, cacheVars, pipeVars, galVars, auxVars, dy, pw, disp, gc, kb, chase>>

InitRetry == BaseParked /\ ToolsParked

NextRetry ==
    \/ \E retries \in 1..MaxRetries, timeout \in 1..MaxTimeoutSec :
          HarnessRetryCall(retries, timeout)
    \/ \E need \in 1..(MaxTimeoutSec + 1), kind \in {"result", "error"}, value \in {1, 2},
          tie \in BOOLEAN : HarnessRetryAttempt(need, kind, value, tie)

SpecRetry == InitRetry /\ [][NextRetry]_vars

Init == PipeInit /\ GalParked /\ AuxParked

Next ==
    \/ \E r \in Reqs, u \in Uids : Enter(r, u)
    \/ \E r \in Reqs : Begin(r)
    \/ \E r \in Reqs : ParseDeliver(r)
    \/ Forget

Spec == Init /\ [][Next]_vars

\* a request is inside the driver from its acquire to the end of its handler
InDriver(r) == req[r].pc \in {"admitted", "parsing"}

\* the records that request r has appended to the log
RecordsOf(r) ==
    {<<u, i>> \in Uids \X (1..NumReqs) : i <= Len(stats[u]) /\ stats[u][i].req = r}

\* the record appended by the handler that has just ended
LastRecord == stats[frame.uid][Len(stats[frame.uid])]

\* the handler that has just ended answered from the handle cache
ServedFromCache == frame.pc = "done" /\ frame.cnt.sbh = 1 /\ frame.ret = "True"

C2_LockFreeAfterHandler ==
    \A u \in Uids : locks[u] => \E r \in Reqs : req[r].uid = u /\ InDriver(r)

\* C4: a request admitted past both gates has appended exactly one record
\* when its handler has ended, however it ended; a request turned away at a
\* gate has appended none.
C4_OneRecordPerAdmitted ==
    \A r \in Reqs :
       /\ req[r].out \in {"ratelimited", "busy"} => RecordsOf(r) = {}
       /\ (req[r].pc = "done" /\ req[r].out \in {"escaped", "returned", "raised"})
             => Cardinality(RecordsOf(r)) = 1

\* C7: when the send by a cached handle fails as stale, the entry is deleted
\* once, the request goes on through parse, and it does not end on the
\* error path.
C7_StaleHandleRecovers ==
    (frame.pc = "done" /\ frame.stale) =>
       /\ frame.cnt.del = 1
       /\ frame.cnt.parse = 1
       /\ ~frame.exc

\* C8: when peek gives a vid that has a cache entry and the gallery switch
\* does not pass the hit over, the handler sends by handle exactly once,
\* never parses, and makes no cache write or delete.
C8_HitSendsByHandleOnce ==
    (frame.pc = "done" /\ frame.found /\ ~(switch /\ frame.foundList)) =>
       /\ frame.cnt.sbh = 1
       /\ frame.cnt.parse = 0
       /\ frame.cnt.put = 0 /\ frame.cnt.del = 0

C8_Witness ==
    /\ ServedFromCache
    /\ frame.found /\ frame.foundList /\ ~switch
    /\ frame.cnt.peek = 1 /\ frame.cnt.parse = 0

\* C9: the record of a request served from the handle cache has
\* is_cached_hit and parse_success set; the record of a request that went
\* through a parse has is_cached_hit unset.
C9_HitRecordFlags ==
    /\ ServedFromCache => (LastRecord.is_cached_hit /\ LastRecord.parse_success)
    /\ (frame.pc = "done" /\ frame.cnt.parse = 1) => ~LastRecord.is_cached_hit

\* C13: a parsed plain video of more than 50 MB is not an error: the request
\* ends as a success, the user gets the message with the link, and an entry
\* is stored in the cache under vid.
C13_OversizeVideoLinked ==
    (frame.pc = "done" /\ frame.oversize /\ frame.fault = "none") =>
       /\ frame.ret = "True" /\ ~frame.exc
       /\ "error" \notin frame.replies
       /\ frame.cnt.put = 1

\* C14: when a delivery send fails after a successful parse, the record has
\* parse_success unset, the handler does not return success, nothing is
\* written to the cache and the placeholder is not deleted.
C14_FailedDeliveryCountsAsFailure ==
    (frame.pc = "done" /\ frame.cnt.parse = 1 /\ frame.rec.success /\ frame.exc
        /\ frame.fault = "send") =>
       /\ ~LastRecord.parse_success
       /\ frame.ret # "True"
       /\ frame.cnt.put = 0
       /\ frame.progress # "deleted"

\* the user holds a final reply or an explicit error message
Replied(q) ==
    \/ q.replies \cap {"media", "link", "usage", "quality_text", "error"} # {}
    \/ q.progress \in {"error", "failtext", "notice"}

\* C15: no admitted request ends without the user having received a final
\* reply or an explicit error message.
C15_NeverLeftWithoutReply ==
    frame.pc = "done" => Replied(frame)

\* C16: a request turned away by the rate limiter has no effect: no reply, no
\* record, the lock table, the limiter state and the cache as they were, no
\* peek and no parse.
C16_RateLimitedNoEffect ==
    [][\A r \in Reqs :
          (req[r].pc = "new" /\ req'[r].out = "ratelimited") =>
             /\ req'[r].replies = {} /\ req'[r].cnt = NewCounts
             /\ locks' = locks /\ stats' = stats /\ last_sent' = last_sent
             /\ cache' = cache /\ disk' = disk]_vars

\* a request of a uid that came again too early and was turned away while the
\* first one was still in the driver, holding the lock
C16_Witness ==
    \E r1, r2 \in Reqs :
       /\ req[r2].out = "ratelimited" /\ req[r2].uid = req[r1].uid
       /\ InDriver(r1) /\ locks[req[r1].uid]
       /\ RecordsOf(r2) = {} /\ req[r2].replies = {}

C34_BusyLeavesLockAlone ==
    [][\A r \in Reqs :
          (req[r].pc = "new" /\ req'[r].out = "busy") =>
             /\ locks[req'[r].uid] /\ locks' = locks
             /\ ActiveCount(locks') = ActiveCount(locks)
             /\ stats' = stats
             /\ req'[r].cnt.peek = 0 /\ req'[r].cnt.parse = 0
             /\ \A r2 \in Reqs :
                   InDriver(r2) => (req'[r2] = req[r2] /\ locks'[req[r2].uid])]_vars

\* a request turned away as busy after the first request of its uid had
\* begun to parse, the lock still held by that request
C34_Witness ==
    \E r1, r2 \in Reqs :
       /\ r1 # r2 /\ req[r2].out = "busy" /\ req[r2].uid = req[r1].uid
       /\ req[r1].pc = "parsing" /\ locks[req[r1].uid]
       /\ ActiveCount(locks) = 1 /\ RecordsOf(r2) = {}

\* C19: the log holds at most one record of a fresh parse per (uid, vid).
C19_OneFreshRecordPerVid ==
    \A u \in Uids : \A i, j \in 1..Len(stats[u]) :
       (i < j /\ ~stats[u][i].is_cached_hit /\ ~stats[u][j].is_cached_hit
          /\ stats[u][i].vid # NoVid)
          => stats[u][i].vid # stats[u][j].vid

\* C26: when parse returns success = false the handler sends no media, writes
\* nothing to the cache, puts the generic error text into the placeholder
\* (when that edit goes through), appends exactly one record, with
\* parse_success unset and the error message, and releases the uid's lock.
C26_ParseFailureHandled ==
    (frame.pc = "done" /\ frame.parsed = "failure") =>
       /\ frame.replies \cap {"media", "link", "quality_text"} = {}
       /\ frame.cnt.put = 0
       /\ frame.ret # "True"
       /\ ~frame.exc => frame.progress = "error"
       /\ \E r \in Reqs :
             /\ Cardinality(RecordsOf(r)) = 1
             /\ LastRecord.req = r /\ LastRecord.uid = frame.uid
       /\ ~LastRecord.parse_success /\ LastRecord.parse_exception
       /\ ~locks[frame.uid]

\* a handler whose parse came back with success = false has just ended with
\* the error text in the placeholder
C26_Witness ==
    /\ frame.pc = "done" /\ frame.parsed = "failure" /\ ~frame.exc
    /\ frame.progress = "error" /\ frame.cnt.parse = 1
    /\ ~LastRecord.parse_success /\ LastRecord.parse_exception
    /\ ~locks[frame.uid]

=============================================================================
